---- MODULE Spec2Model ----
(***************************************************************************)
(* odooctl: the environment store (internal/config), the identity resolver *)
(* (internal/project, internal/git) and the docker create / run /          *)
(* reconfigure / reset commands (cmd/docker) as a state machine over the   *)
(* file system.  Names and paths are strings; TLC evaluates Len, SubSeq    *)
(* and \o on strings, so the string functions of the code are computed     *)
(* character by character.                                                 *)
(***************************************************************************)
EXTENDS Integers, Sequences, FiniteSets, TLC

VARIABLES
    dirs,    \* the directories that exist (absolute, cleaned paths)
    files,   \* the regular files that exist: path -> content
    last     \* what the last command did and returned

vars == <<dirs, files, last>>

----------------------------------------------------------------------------
(* Bounds of the model *)

\* at most this many state files exist at once (guard of the create step)
MaxEnvs == 2
\* time.Now() returns an instant of 1..MaxTime
MaxTime == 1

\* the longest name given to SanitizeName
MaxNameLen == 3

----------------------------------------------------------------------------
(* Strings *)

Ch(s, i) == SubSeq(s, i, i)

Rest(s) == SubSeq(s, 2, Len(s))

HasSuffix(s, p) ==
    Len(s) >= Len(p) /\ SubSeq(s, Len(s) - Len(p) + 1, Len(s)) = p

HasPrefix(s, p) == Len(p) <= Len(s) /\ SubSeq(s, 1, Len(p)) = p

\* the bytes the model's names are made of, in ascending byte order
ByteOrder == "\t\n -./0123456789@ABCDEFGHIJKLMNOPQRSTUVWXYZ_abcdefghijklmnopqrstuvwxyz"

ByteOf(c) == CHOOSE i \in 1..Len(ByteOrder) : Ch(ByteOrder, i) = c

\* Go's string comparison a < b
RECURSIVE StrLess(_, _)
StrLess(a, b) ==
    IF Len(b) = 0 THEN FALSE
    ELSE IF Len(a) = 0 THEN TRUE
    ELSE IF Ch(a, 1) = Ch(b, 1) THEN StrLess(Rest(a), Rest(b))
    ELSE ByteOf(Ch(a, 1)) < ByteOf(Ch(b, 1))

\* a finite set of strings as the ascending sequence os.ReadDir returns
RECURSIVE SortNames(_)
SortNames(S) ==
    IF S = {} THEN <<>>
    ELSE LET m == CHOOSE x \in S : \A y \in S \ {x} : StrLess(x, y)
         IN  <<m>> \o SortNames(S \ {m})

IsSpace(c) == c \in {" ", "\t", "\n"}

RECURSIVE TrimLeft(_)
TrimLeft(s) ==
    IF Len(s) > 0 /\ IsSpace(Ch(s, 1)) THEN TrimLeft(Rest(s)) ELSE s

RECURSIVE TrimRight(_)
TrimRight(s) ==
    IF Len(s) > 0 /\ IsSpace(Ch(s, Len(s)))
    THEN TrimRight(SubSeq(s, 1, Len(s) - 1)) ELSE s

\* strings.TrimSpace
TrimSpace(s) == TrimRight(TrimLeft(s))

\* strings.ReplaceAll(s, old, new) for a one-byte old
RECURSIVE ReplaceAll(_, _, _)
ReplaceAll(s, old, new) ==
    IF Len(s) = 0 THEN ""
    ELSE (IF Ch(s, 1) = old THEN new ELSE Ch(s, 1)) \o ReplaceAll(Rest(s), old, new)

\* the character class [a-zA-Z0-9\-_.] of SanitizeName's regexp
SafeChars == "abcdefghijklmnopqrstuvwxyzABCDEFGHIJKLMNOPQRSTUVWXYZ0123456789-_."

IsSafeChar(c) == \E i \in 1..Len(SafeChars) : Ch(SafeChars, i) = c

RECURSIVE StripUnsafeOnce(_)
RECURSIVE StripUnsafe(_)

\* the regexp replacing its first match only
StripUnsafeOnce(s) ==
    IF Len(s) = 0 THEN ""
    ELSE IF IsSafeChar(Ch(s, 1)) THEN Ch(s, 1) \o StripUnsafeOnce(Rest(s))
    ELSE Rest(s)

\* regexp [^a-zA-Z0-9\-_.] ReplaceAllString(s, "")
StripUnsafe(s) ==
    IF Len(s) = 0 THEN ""
    ELSE (IF IsSafeChar(Ch(s, 1)) THEN Ch(s, 1) ELSE "") \o StripUnsafe(Rest(s))

SanitizeName(name) == StripUnsafe(ReplaceAll(name, "/", "-"))

----------------------------------------------------------------------------
(* Paths: path/filepath on a Unix system *)

\* the elements of s between the separators
RECURSIVE SplitAcc(_, _, _)
SplitAcc(s, cur, acc) ==
    IF Len(s) = 0 THEN Append(acc, cur)
    ELSE IF Ch(s, 1) = "/" THEN SplitAcc(Rest(s), "", Append(acc, cur))
    ELSE SplitAcc(Rest(s), cur \o Ch(s, 1), acc)

SplitPath(s) == SplitAcc(s, "", <<>>)

\* the elements left once ".", "" and ".." are resolved
RECURSIVE CleanSegs(_, _, _)
CleanSegs(segs, out, rooted) ==
    IF segs = <<>> THEN out
    ELSE LET x == Head(segs) IN
         IF x = "" \/ x = "." THEN CleanSegs(Tail(segs), out, rooted)
         ELSE IF x = ".."
              THEN IF Len(out) > 0 /\ out[Len(out)] # ".."
                   THEN CleanSegs(Tail(segs), SubSeq(out, 1, Len(out) - 1), rooted)
                   ELSE IF rooted THEN CleanSegs(Tail(segs), out, rooted)
                        ELSE CleanSegs(Tail(segs), Append(out, x), rooted)
         ELSE CleanSegs(Tail(segs), Append(out, x), rooted)

RECURSIVE JoinSegs(_)
JoinSegs(segs) ==
    IF segs = <<>> THEN ""
    ELSE IF Len(segs) = 1 THEN segs[1]
    ELSE segs[1] \o "/" \o JoinSegs(Tail(segs))

\* filepath.IsAbs
IsAbs(p) == Len(p) > 0 /\ Ch(p, 1) = "/"

\* the path the resolved elements spell
PathOf(segs, rooted) ==
    IF rooted THEN "/" \o JoinSegs(segs)
    ELSE IF segs = <<>> THEN "." ELSE JoinSegs(segs)

\* filepath.Clean
Clean(p) == PathOf(CleanSegs(SplitPath(p), <<>>, IsAbs(p)), IsAbs(p))

\* filepath.Join(a, b): empty elements are ignored, the result is cleaned
Join(a, b) ==
    IF a = "" /\ b = "" THEN ""
    ELSE Clean(IF a = "" THEN b ELSE IF b = "" THEN a ELSE a \o "/" \o b)

LastOf(segs) == IF segs = <<>> THEN "/" ELSE segs[Len(segs)]

\* filepath.Base of an absolute path
Base(p) == LastOf(CleanSegs(SplitPath(p), <<>>, TRUE))

ParentOf(segs) ==
    IF segs = <<>> THEN "/" ELSE "/" \o JoinSegs(SubSeq(segs, 1, Len(segs) - 1))

\* filepath.Dir of an absolute path
Dir(p) == ParentOf(CleanSegs(SplitPath(p), <<>>, TRUE))

\* the file the kernel opens for path p in a process whose working directory is cwd
Resolve(cwd, p) == Clean(IF IsAbs(p) THEN p ELSE cwd \o "/" \o p)

\* p is d or lies below d
Within(p, d) == p = d \/ d = "/" \/ HasPrefix(p, d \o "/")

\* d and the directories above it
RECURSIVE Ancestors(_)
Ancestors(d) == IF d = "/" THEN {"/"} ELSE {d} \cup Ancestors(Dir(d))

----------------------------------------------------------------------------
(* The state record and its JSON form *)

StateFileName == ".odooctl-state.json"

MarkerFileName == ".odooctl"

\* os.UserHomeDir()
HomeDir == "/h"

\* a Go slice of strings: nil, or a (possibly empty) backing array
NilSlice == [nil |-> TRUE, elems |-> <<>>]

Slice(elems) == [nil |-> FALSE, elems |-> elems]

\* a time.Time: the instant, and whether it carries a monotonic clock reading
ZeroTime == [sec |-> 0, mono |-> FALSE]

\* time.Now()
Now(t) == [sec |-> t, mono |-> TRUE]

\* a *time.Time
NilTime == [nil |-> TRUE, t |-> ZeroTime]

PtrTime(t) == [nil |-> FALSE, t |-> t]

ZeroPorts == [Odoo |-> 0, Mailhog |-> 0, SMTP |-> 0, Debug |-> 0]

\* the zero value of config.State
ZeroState ==
    [ProjectName |-> "", OdooVersion |-> "", Branch |-> "", IsGitRepo |-> FALSE,
     ProjectRoot |-> "", Modules |-> NilSlice, Enterprise |-> FALSE,
     EnterpriseGitHubToken |-> "", EnterpriseSSHKeyPath |-> "",
     WithoutDemo |-> FALSE, PipPackages |-> NilSlice, AddonsPaths |-> NilSlice,
     Ports |-> ZeroPorts, CreatedAt |-> ZeroTime,
     InitializedAt |-> NilTime, BuiltAt |-> NilTime]

\* JsonSlice as the omitempty option would have it: an empty list is left out
JsonSliceOmitEmpty(s) == [null |-> s.nil \/ s.elems = <<>>, arr |-> s.elems]

\* a JSON array or null
JsonSlice(s) == [null |-> s.nil, arr |-> s.elems]

\* a key with omitempty: left out when the value is the empty string
JsonOmitEmptyString(s) == [present |-> s # "", v |-> s]

\* a *time.Time with omitempty: left out when nil, else the RFC 3339 instant
JsonOmitEmptyTime(p) == [present |-> ~p.nil, v |-> IF p.nil THEN 0 ELSE p.t.sec]

\* json.MarshalIndent(s, "", "  ")
MarshalState(s) ==
    [project_name |-> s.ProjectName,
     odoo_version |-> s.OdooVersion,
     branch |-> s.Branch,
     is_git_repo |-> s.IsGitRepo,
     project_root |-> s.ProjectRoot,
     modules |-> JsonSlice(s.Modules),
     enterprise |-> s.Enterprise,
     enterprise_github_token |-> JsonOmitEmptyString(s.EnterpriseGitHubToken),
     enterprise_ssh_key_path |-> JsonOmitEmptyString(s.EnterpriseSSHKeyPath),
     without_demo |-> s.WithoutDemo,
     pip_packages |-> JsonSlice(s.PipPackages),
     addons_paths |-> JsonSlice(s.AddonsPaths),
     ports |-> [odoo |-> s.Ports.Odoo, mailhog |-> s.Ports.Mailhog,
                smtp |-> s.Ports.SMTP, debug |-> s.Ports.Debug],
     created_at |-> s.CreatedAt.sec,
     initialized_at |-> JsonOmitEmptyTime(s.InitializedAt),
     built_at |-> JsonOmitEmptyTime(s.BuiltAt)]

\* a JSON array or null decoded into a nil []string
UnmarshalSlice(j) == IF j.null THEN NilSlice ELSE Slice(j.arr)

\* an absent key leaves the zero value of the field
UnmarshalString(j) == IF j.present THEN j.v ELSE ""

UnmarshalTimePtr(j) ==
    IF j.present THEN PtrTime([sec |-> j.v, mono |-> FALSE]) ELSE NilTime

\* json.Unmarshal(data, &state) into a zero State
UnmarshalState(doc) ==
    [ProjectName |-> doc.project_name,
     OdooVersion |-> doc.odoo_version,
     Branch |-> doc.branch,
     IsGitRepo |-> doc.is_git_repo,
     ProjectRoot |-> doc.project_root,
     Modules |-> UnmarshalSlice(doc.modules),
     Enterprise |-> doc.enterprise,
     EnterpriseGitHubToken |-> UnmarshalString(doc.enterprise_github_token),
     EnterpriseSSHKeyPath |-> UnmarshalString(doc.enterprise_ssh_key_path),
     WithoutDemo |-> doc.without_demo,
     PipPackages |-> UnmarshalSlice(doc.pip_packages),
     AddonsPaths |-> UnmarshalSlice(doc.addons_paths),
     Ports |-> [Odoo |-> doc.ports.odoo, Mailhog |-> doc.ports.mailhog,
                SMTP |-> doc.ports.smtp, Debug |-> doc.ports.debug],
     CreatedAt |-> [sec |-> doc.created_at, mono |-> FALSE],
     InitializedAt |-> UnmarshalTimePtr(doc.initialized_at),
     BuiltAt |-> UnmarshalTimePtr(doc.built_at)]

----------------------------------------------------------------------------
(* File contents and the file system calls of package os *)

NoDoc == MarshalState(ZeroState)

\* the bytes of a state file: a JSON document
JsonFile(doc) == [kind |-> "json", text |-> "", doc |-> doc]

\* the bytes of a marker file, or of a file cut short by a failed write
TextFile(text) == [kind |-> "text", text |-> text, doc |-> NoDoc]

\* a file templates.Render wrote from the state
RenderedFile(doc) == [kind |-> "rendered", text |-> "", doc |-> doc]

FS(d, f) == [dirs |-> d, files |-> f]

IsFile(fs, p) == p \in DOMAIN fs.files

IsDir(fs, p) == p \in fs.dirs

\* os.MkdirAll(d) succeeds unless a regular file is in the way
CanMkdirAll(fs, d) == \A a \in Ancestors(d) : ~IsFile(fs, a)

MkdirAll(fs, d) == FS(fs.dirs \cup Ancestors(d), fs.files)

\* os.WriteFile(p) can open p: its directory exists and p is no directory
CanWriteFile(fs, p) == IsDir(fs, Dir(p)) /\ ~IsDir(fs, p)

WriteFile(fs, p, content) ==
    FS(fs.dirs,
       [q \in DOMAIN fs.files \cup {p} |-> IF q = p THEN content ELSE fs.files[q]])

\* an os.RemoveAll that removes nothing
RemoveAllNothing(fs, d) == fs

\* os.RemoveAll(d): d and everything below it; a missing d is no error
RemoveAll(fs, d) ==
    FS({x \in fs.dirs : ~Within(x, d)},
       [q \in {x \in DOMAIN fs.files : ~Within(x, d)} |-> fs.files[q]])

----------------------------------------------------------------------------
(* internal/config: the environment store *)

ConfigDir == Join(HomeDir, ".odooctl")

ProjectDir(projectName) == Join(ConfigDir, projectName)

EnvironmentDir(projectName, branch) == Join(ProjectDir(projectName), branch)

\* no environment is ever found
EnvironmentExistsNever(fs, projectName, branch) == FALSE

\* EnvironmentExists looking for the file name the state file does not have
EnvironmentExistsWrongFile(fs, projectName, branch) ==
    IsFile(fs, Join(EnvironmentDir(projectName, branch), "state.json"))

\* os.Stat of the state file succeeds
EnvironmentExists(fs, projectName, branch) ==
    LET statePath == Join(EnvironmentDir(projectName, branch), StateFileName)
    IN  IsFile(fs, statePath) \/ IsDir(fs, statePath)

Digits == "0123456789"

IsDigit(c) == \E i \in 1..Len(Digits) : Ch(Digits, i) = c

DigitValue(c) == (CHOOSE i \in 1..Len(Digits) : Ch(Digits, i) = c) - 1

\* the decimal digits s starts with, as [n |-> how many, v |-> their value]
RECURSIVE LeadingDigits(_, _, _)
LeadingDigits(s, n, v) ==
    IF Len(s) > 0 /\ IsDigit(Ch(s, 1))
    THEN LeadingDigits(Rest(s), n + 1, 10 * v + DigitValue(Ch(s, 1)))
    ELSE [n |-> n, v |-> v]

\* the number scanned: the digits d under the sign
Signed(neg, d) == [ok |-> d.n > 0, v |-> IF neg THEN 0 - d.v ELSE d.v]

ScanSigned(s) ==
    Signed(Len(s) > 0 /\ Ch(s, 1) = "-",
           LeadingDigits(IF Len(s) > 0 /\ Ch(s, 1) \in {"+", "-"} THEN Rest(s) ELSE s,
                         0, 0))

\* fmt.Sscanf(version, "%d", &major): leading spaces, a sign, decimal digits
ScanMajor(version) == ScanSigned(TrimLeft(version))

DefaultMajor == 17

\* major stays 17 when the scan fails
MajorOf(scan) == IF scan.ok THEN scan.v ELSE DefaultMajor

PortsOfMajor(major) ==
    [Odoo |-> 8000 + (major * 100),
     Mailhog |-> 8000 + (major * 100) + 25,
     SMTP |-> 1000 + (major * 100) + 25,
     Debug |-> 5000 + (major * 100) + 78]

CalculatePorts(version) == PortsOfMajor(MajorOf(ScanMajor(version)))

\* IsPortAvailable: net.Listen succeeds unless another listener holds the port
IsPortAvailable(busy, port) == port \notin busy

\* the ports of p that are in use, in the order Odoo, Mailhog, SMTP, Debug
CheckPortsAvailable(p, busy) ==
    SelectSeq(<<p.Odoo, p.Mailhog, p.SMTP, p.Debug>>,
              LAMBDA port : ~IsPortAvailable(busy, port))

\* only the Odoo port is moved
ShiftPortsOdooOnly(base, offset) == [base EXCEPT !.Odoo = @ + offset]

ShiftPorts(base, offset) ==
    [Odoo |-> base.Odoo + offset, Mailhog |-> base.Mailhog + offset,
     SMTP |-> base.SMTP + offset, Debug |-> base.Debug + offset]

PortAttempts == 10

PortStep == 10

\* the attempts i whose shifted ports are all free
FreeAttempts(base, busy) ==
    {i \in 0..(PortAttempts - 1) :
        CheckPortsAvailable(ShiftPorts(base, i * PortStep), busy) = <<>>}

\* the last free attempt instead of the first
LastFree(base, free) ==
    IF free = {} THEN base
    ELSE ShiftPorts(base, (CHOOSE i \in free : \A j \in free : i >= j) * PortStep)

\* the first free attempt, or the base ports when there is none
FirstFree(base, free) ==
    IF free = {} THEN base
    ELSE ShiftPorts(base, (CHOOSE i \in free : \A j \in free : i <= j) * PortStep)

FindPortsFrom(base, busy) == FirstFree(base, FreeAttempts(base, busy))

FindAvailablePorts(version, busy) == FindPortsFrom(CalculatePorts(version), busy)

\* State.Save under a fault of the file system:
\*   "mkdir"      os.MkdirAll fails
\*   "state"      the state file cannot be opened for writing
\*   "stateCut"   the state file is truncated and the write then fails
\*   "marker"     the marker file cannot be opened for writing
\*   "markerCut"  the marker file is truncated and the write then fails
\* (the three steps of Save follow, last first)

\* os.WriteFile(markerPath, []byte(dir), 0644)
WriteMarker(fs, fault, markerPath, dir) ==
    IF fault = "marker" \/ ~CanWriteFile(fs, markerPath)
    THEN [fs |-> fs, err |-> "marker"]
    ELSE IF fault = "markerCut"
    THEN [fs |-> WriteFile(fs, markerPath, TextFile("")), err |-> "marker"]
    ELSE [fs |-> WriteFile(fs, markerPath, TextFile(dir)), err |-> ""]

\* the marker is written before the state file
WriteStateMarkerFirst(fs, s, fault, dir, statePath) ==
    IF fault \in {"marker", "markerCut"}
    THEN WriteMarker(fs, fault, Join(s.ProjectRoot, MarkerFileName), dir)
    ELSE IF fault = "state" \/ ~CanWriteFile(fs, statePath)
    THEN [fs |-> fs, err |-> "state"]
    ELSE IF fault = "stateCut"
    THEN [fs |-> WriteFile(fs, statePath, TextFile("")), err |-> "state"]
    ELSE WriteMarker(WriteFile(fs, statePath, JsonFile(MarshalState(s))), fault,
                     Join(s.ProjectRoot, MarkerFileName), dir)

\* os.WriteFile(statePath, data, 0600), then the marker
WriteState(fs, s, fault, dir, statePath) ==
    IF fault = "state" \/ ~CanWriteFile(fs, statePath)
    THEN [fs |-> fs, err |-> "state"]
    ELSE IF fault = "stateCut"
    THEN [fs |-> WriteFile(fs, statePath, TextFile("")), err |-> "state"]
    ELSE WriteMarker(WriteFile(fs, statePath, JsonFile(MarshalState(s))), fault,
                     Join(s.ProjectRoot, MarkerFileName), dir)

\* os.MkdirAll(dir, 0755), then the state file
SaveIn(fs, s, fault, dir) ==
    IF fault = "mkdir" \/ ~CanMkdirAll(fs, dir)
    THEN [fs |-> fs, err |-> "mkdir"]
    ELSE WriteState(MkdirAll(fs, dir), s, fault, dir, Join(dir, StateFileName))

Save(fs, s, fault) == SaveIn(fs, s, fault, EnvironmentDir(s.ProjectName, s.Branch))

\* os.ReadFile then json.Unmarshal of the state file at path
ReadState(fs, path) ==
    IF ~IsFile(fs, path) THEN [state |-> ZeroState, err |-> "notexist"]
    ELSE IF fs.files[path].kind # "json" THEN [state |-> ZeroState, err |-> "corrupt"]
    ELSE [state |-> UnmarshalState(fs.files[path].doc), err |-> ""]

Load(fs, projectName, branch) ==
    ReadState(fs, Join(EnvironmentDir(projectName, branch), StateFileName))

\* os.ReadDir(d): the names of the directories in d, ascending
SubDirs(fs, d) == SortNames({Base(x) : x \in {y \in fs.dirs : y # d /\ Dir(y) = d}})

PairsOf(p, branches) == [i \in 1..Len(branches) |-> <<p, branches[i]>>]

\* the (project, branch) pairs in the order the two loops of the scan visit them
RECURSIVE ScanOrder(_, _)
ScanOrder(fs, projects) ==
    IF projects = <<>> THEN <<>>
    ELSE PairsOf(Head(projects), SubDirs(fs, Join(ConfigDir, Head(projects))))
             \o ScanOrder(fs, Tail(projects))

RECURSIVE ScanFind(_, _, _)

\* the inner loop taking the first state that loads, whatever its ProjectRoot
ScanStepAnyRoot(fs, dir, pairs, got) ==
    IF got.err = "" THEN got ELSE ScanFind(fs, dir, Tail(pairs))

\* the body of the inner loop for the state got, and the rest of the scan
ScanStep(fs, dir, pairs, got) ==
    IF got.err = "" /\ got.state.ProjectRoot = dir THEN got
    ELSE ScanFind(fs, dir, Tail(pairs))

\* the first state of the scan whose ProjectRoot is dir
ScanFind(fs, dir, pairs) ==
    IF pairs = <<>> THEN [state |-> ZeroState, err |-> "notexist"]
    ELSE ScanStep(fs, dir, pairs, Load(fs, Head(pairs)[1], Head(pairs)[2]))

\* the slow path of LoadFromDir, which is all of the scan-only LoadFromDir
ScanAll(fs, dir) ==
    IF ~IsDir(fs, ConfigDir) THEN [state |-> ZeroState, err |-> "readdir"]
    ELSE ScanFind(fs, dir, ScanOrder(fs, SubDirs(fs, ConfigDir)))

\* FastPathCheck trusting whatever state the marker leads to
FastPathCheckAnyRoot(dir, got) ==
    IF got.err = "" THEN got ELSE [state |-> ZeroState, err |-> "stale"]

\* the marker is valid when the state it leads to points back to dir
FastPathCheck(dir, got) ==
    IF got.err = "" /\ got.state.ProjectRoot = dir THEN got
    ELSE [state |-> ZeroState, err |-> "stale"]

FastPathAt(fs, dir, fault, markerPath) ==
    IF fault = "markerRead" \/ ~IsFile(fs, markerPath)
    THEN [state |-> ZeroState, err |-> "nomarker"]
    ELSE FastPathCheck(dir,
             ReadState(fs, Resolve(dir, Join(TrimSpace(fs.files[markerPath].text),
                                             StateFileName))))

\* the fast path of LoadFromDir: the state the marker of dir leads to
FastPath(fs, dir, fault) == FastPathAt(fs, dir, fault, Join(dir, MarkerFileName))

\* the end of the slow path: the marker is rewritten, whatever comes of it
LoadSlow(fs, dir, fault, slow) ==
    IF slow.err # ""
    THEN [fs |-> fs, state |-> ZeroState, err |-> slow.err, scanned |-> TRUE]
    ELSE [fs |-> WriteMarker(fs, fault, Join(dir, MarkerFileName),
                             EnvironmentDir(slow.state.ProjectName,
                                            slow.state.Branch)).fs,
          state |-> slow.state, err |-> "", scanned |-> TRUE]

LoadFast(fs, dir, fault, fast) ==
    IF fast.err = ""
    THEN [fs |-> fs, state |-> fast.state, err |-> "", scanned |-> FALSE]
    ELSE LoadSlow(fs, dir, fault, ScanAll(fs, dir))

\* LoadFromDir(dir) in a process whose working directory is dir, under a fault:
\*   "markerRead" the marker cannot be read
\*   "marker"     the marker cannot be opened for the repair
\*   "markerCut"  the marker is truncated and the repair write then fails
\* scanned tells whether the slow path ran
LoadFromDir(fs, dir, fault) == LoadFast(fs, dir, fault, FastPath(fs, dir, fault))

\* the earlier LoadFromDir, which has no marker and scans every time
LoadFromDirScanOnly(fs, dir) == ScanAll(fs, dir)

----------------------------------------------------------------------------
(* internal/templates, internal/git, internal/project *)

TemplateFiles ==
    <<"docker-compose.yml", "Dockerfile", "odoo.conf", "entrypoint.sh",
      "wait-for-psql.py", ".env", ".dockerignore">>

\* what the templates read of the state
NewData(state) ==
    MarshalState([state EXCEPT !.Branch = "", !.IsGitRepo = FALSE,
                               !.CreatedAt = ZeroTime,
                               !.InitializedAt = NilTime, !.BuiltAt = NilTime])

RECURSIVE RenderFiles(_, _, _, _)
RenderFiles(fs, dir, names, data) ==
    IF names = <<>> THEN fs
    ELSE RenderFiles(WriteFile(fs, Join(dir, Head(names)), RenderedFile(data)),
                     dir, Tail(names), data)

\* the files are written into the directory made
RenderInto(fs, state, fault, dir) ==
    IF fault = "render" \/ \E i \in 1..Len(TemplateFiles) :
                               ~CanWriteFile(fs, Join(dir, TemplateFiles[i]))
    THEN [fs |-> fs, err |-> "render"]
    ELSE [fs |-> RenderFiles(fs, dir, TemplateFiles, NewData(state)), err |-> ""]

RenderIn(fs, state, fault, dir) ==
    IF fault = "mkdir" \/ ~CanMkdirAll(fs, dir) THEN [fs |-> fs, err |-> "mkdir"]
    ELSE RenderInto(MkdirAll(fs, dir), state, fault, dir)

\* templates.Render under a fault: "mkdir" os.MkdirAll fails, "render" the
\* first file cannot be written
Render(fs, state, fault) ==
    RenderIn(fs, state, fault, EnvironmentDir(state.ProjectName, state.Branch))

OdooVersions == <<"19.0", "18.0", "17.0", "16.0">>

\* the first of the versions at the indexes hits
FirstVersion(hits) ==
    IF hits = {} THEN ""
    ELSE OdooVersions[CHOOSE i \in hits : \A j \in hits : i <= j]

\* git.VersionFromBranch: the first supported version the branch starts with
VersionFromBranch(branch) ==
    FirstVersion({i \in 1..Len(OdooVersions) : HasPrefix(branch, OdooVersions[i])})

\* what git answers in a directory: no repository, or the top level and the
\* branch of HEAD ("" when HEAD is detached and git symbolic-ref fails)
NoGit == [IsRepo |-> FALSE, Root |-> "", Branch |-> ""]

GitRepo(root, branch) == [IsRepo |-> TRUE, Root |-> root, Branch |-> branch]

\* git.Detect, given git's answers
GitDetect(git) ==
    IF git.IsRepo
    THEN [IsRepo |-> TRUE, RepoName |-> Base(git.Root), Branch |-> git.Branch,
          Root |-> git.Root]
    ELSE [IsRepo |-> FALSE, RepoName |-> "", Branch |-> "", Root |-> ""]

\* a file that may be absent
NoFile == [present |-> FALSE, data |-> ""]

FileWith(data) == [present |-> TRUE, data |-> data]

\* the context before git is asked
DetectDir(absDir) ==
    [Name |-> SanitizeName(Base(absDir)), OdooVersion |-> "",
     Branch |-> SanitizeName("main"), IsGitRepo |-> FALSE, Root |-> absDir]

\* inside a repository git decides name, branch, root and version
DetectGit(ctx, gitInfo) ==
    IF gitInfo.IsRepo
    THEN [ctx EXCEPT !.IsGitRepo = TRUE,
                     !.Name = SanitizeName(gitInfo.RepoName),
                     !.Branch = SanitizeName(gitInfo.Branch),
                     !.Root = gitInfo.Root,
                     !.OdooVersion = VersionFromBranch(gitInfo.Branch)]
    ELSE ctx

\* the .odooversion file, read as it is
DetectVersionFile(ctx, versionFile) ==
    IF ctx.OdooVersion = "" /\ versionFile.present
    THEN [ctx EXCEPT !.OdooVersion = versionFile.data] ELSE ctx

\* the environment variable is read first
DetectEnvFirst(ctx, envVersion) ==
    IF envVersion # "" THEN [ctx EXCEPT !.OdooVersion = envVersion] ELSE ctx

DetectEnv(ctx, envVersion) ==
    IF ctx.OdooVersion = "" THEN [ctx EXCEPT !.OdooVersion = envVersion] ELSE ctx

\* project.Detect(dir): versionFile is <root>/.odooversion, envVersion is
\* the environment variable ODOO_VERSION
Detect(dir, git, versionFile, envVersion) ==
    DetectEnv(DetectVersionFile(DetectGit(DetectDir(Clean(dir)), GitDetect(git)),
                                versionFile),
              envVersion)

\* project.Detect(dir) where read is what os.ReadFile answers for each path:
\* the file read is <root>/.odooversion, root being the top level of the
\* repository, or dir outside one
DetectIn(dir, git, read, envVersion) ==
    Detect(dir, git,
           read[Join(DetectGit(DetectDir(Clean(dir)), GitDetect(git)).Root,
                     ".odooversion")],
           envVersion)

----------------------------------------------------------------------------
(* cmd/docker: the commands.  Every command records in last what it was, *)
(* where it ran, how it ended and the docker compose calls it made.      *)

\* the text of the errors whose wording matters: the conflict of runCreate and
\* the miss of loadState
ErrorText(err, project, branch) ==
    IF err = "exists"
    THEN "environment '" \o project \o "/" \o branch \o "' already exists. Use a different --name or remove the existing environment with 'odooctl docker reset'"
    ELSE IF err = "notfound"
    THEN "no Docker environment found. Run 'odooctl docker create' first"
    ELSE err

Outcome(cmd, cwd, err, project, branch, state, scanned, compose) ==
    [cmd |-> cmd, cwd |-> cwd, err |-> err, msg |-> ErrorText(err, project, branch),
     project |-> project, branch |-> branch, state |-> state, scanned |-> scanned,
     compose |-> compose]

\* the state files there are
StatePaths(fs) == {p \in DOMAIN fs.files : HasSuffix(p, "/" \o StateFileName)}

\* strings.Split(s, sep) for a one-byte sep
RECURSIVE SplitOn(_, _, _, _)
SplitOn(s, sep, cur, acc) ==
    IF Len(s) = 0 THEN Append(acc, cur)
    ELSE IF Ch(s, 1) = sep THEN SplitOn(Rest(s), sep, "", Append(acc, cur))
    ELSE SplitOn(Rest(s), sep, cur \o Ch(s, 1), acc)

SplitModules(parts) == Slice([i \in 1..Len(parts) |-> TrimSpace(parts[i])])

\* runCreate's parse of --modules
ParseModules(flagModules) ==
    IF flagModules = "" THEN NilSlice
    ELSE SplitModules(SplitOn(flagModules, ",", "", <<>>))

\* --name: the project name inside a repository, the environment name outside
ApplyName(ctx, flagName) ==
    IF ctx.IsGitRepo
    THEN IF flagName # "" THEN [ctx EXCEPT !.Name = flagName] ELSE ctx
    ELSE [ctx EXCEPT !.Branch = IF flagName # "" THEN flagName ELSE ctx.Name]

ApplyVersion(ctx, flagOdooVersion) ==
    IF flagOdooVersion # "" THEN [ctx EXCEPT !.OdooVersion = flagOdooVersion] ELSE ctx

\* prompt.SelectVersion is asked when no version is known
AskVersion(ctx, prompt) ==
    [Name |-> ctx.Name, Branch |-> ctx.Branch, IsGitRepo |-> ctx.IsGitRepo,
     Root |-> ctx.Root, asked |-> ctx.OdooVersion = "",
     OdooVersion |-> IF ctx.OdooVersion = "" THEN prompt.v ELSE ctx.OdooVersion]

\* the context runCreate works with once --name and --odoo-version are applied
\* and, when no version is known, prompt.SelectVersion has answered
CreateContext(in) ==
    AskVersion(ApplyVersion(ApplyName(Detect(in.cwd, in.git, in.versionFile,
                                             in.envVersion),
                                      in.flagName),
                            in.flagOdooVersion),
               in.prompt)

\* the state runCreate builds
CreateState(in, ctx) ==
    [ProjectName |-> ctx.Name,
     OdooVersion |-> ctx.OdooVersion,
     Branch |-> ctx.Branch,
     IsGitRepo |-> ctx.IsGitRepo,
     ProjectRoot |-> ctx.Root,
     Modules |-> ParseModules(in.flagModules),
     Enterprise |-> in.flagEnterprise,
     EnterpriseGitHubToken |-> IF in.flagEnterprise THEN in.auth.token ELSE "",
     EnterpriseSSHKeyPath |-> IF in.flagEnterprise THEN in.auth.key ELSE "",
     WithoutDemo |-> in.flagWithoutDemo,
     PipPackages |-> in.pip,
     AddonsPaths |-> in.addons,
     Ports |-> CalculatePorts(ctx.OdooVersion),
     CreatedAt |-> Now(in.now),
     InitializedAt |-> NilTime,
     BuiltAt |-> NilTime]

\* promptEnterpriseAuth stores credentials newly entered in the global config
SaveGlobalConfig(fs) ==
    IF CanMkdirAll(fs, ConfigDir)
    THEN WriteFile(MkdirAll(fs, ConfigDir), Join(ConfigDir, "config.json"),
                   TextFile("global"))
    ELSE fs

\* the end of runCreate: the result of State.Save
CreateSaved(state, saved) ==
    [fs |-> saved.fs, err |-> IF saved.err # "" THEN "save" ELSE "", state |-> state]

\* templates.Render, then State.Save
CreateRendered(state, fault, rendered) ==
    IF rendered.err # ""
    THEN [fs |-> rendered.fs, err |-> "render", state |-> state]
    ELSE CreateSaved(state, Save(rendered.fs, state, fault))

CreateFiles(fs, fault, state) == CreateRendered(state, fault, Render(fs, state, fault))

\* runCreate from the context on, without the check for an existing environment
CreateUnchecked(fs, in, ctx) ==
    IF ctx.asked /\ in.prompt.err
    THEN [fs |-> fs, err |-> "prompt", state |-> ZeroState]
    ELSE IF in.flagEnterprise /\ in.auth.err
    THEN [fs |-> fs, err |-> "auth", state |-> ZeroState]
    ELSE CreateFiles(IF in.flagEnterprise /\ in.auth.entered
                     THEN SaveGlobalConfig(fs) ELSE fs,
                     in.fault, CreateState(in, ctx))

\* runCreate from the context on
CreateChecked(fs, in, ctx) ==
    IF ctx.asked /\ in.prompt.err
    THEN [fs |-> fs, err |-> "prompt", state |-> ZeroState]
    ELSE IF EnvironmentExists(fs, ctx.Name, ctx.Branch)
    THEN [fs |-> fs, err |-> "exists", state |-> ZeroState]
    ELSE IF in.flagEnterprise /\ in.auth.err
    THEN [fs |-> fs, err |-> "auth", state |-> ZeroState]
    ELSE CreateFiles(IF in.flagEnterprise /\ in.auth.entered
                     THEN SaveGlobalConfig(fs) ELSE fs,
                     in.fault, CreateState(in, ctx))

\* runCreate: [fs, err, state]
RunCreate(fs, in) == CreateChecked(fs, in, CreateContext(in))

\* odooctl docker create
Create(in) ==
    \E out \in {RunCreate(FS(dirs, files), in)}, ctx \in {CreateContext(in)} :
        /\ Cardinality(StatePaths(out.fs)) <= MaxEnvs
        /\ dirs' = out.fs.dirs
        /\ files' = out.fs.files
        /\ last' = Outcome("create", in.cwd, out.err, ctx.Name, ctx.Branch,
                           out.state, FALSE, <<>>)

\* whatever LoadFromDir fails with, loadState reports no environment
LoadStateResult(got) == [got EXCEPT !.err = IF got.err = "" THEN "" ELSE "notfound"]

\* loadState of cmd/docker: [fs, state, err, scanned]
LoadState(fs, cwd, fault) == LoadStateResult(LoadFromDir(fs, cwd, fault))

\* any command that only resolves its environment (status, logs, shell, ...)
Lookup(cwd, fault) ==
    \E got \in {LoadState(FS(dirs, files), cwd, fault)} :
        /\ dirs' = got.fs.dirs
        /\ files' = got.fs.files
        /\ last' = Outcome("lookup", cwd, got.err, got.state.ProjectName,
                           got.state.Branch, got.state, got.scanned, <<>>)

\* an answer of prompt.Confirm
Answer(err, yes) == [err |-> err, yes |-> yes]

\* how a command that began with loadState ends: [fs, err, state, scanned, compose]
Result(got, fs, err, state, compose) ==
    [fs |-> fs, err |-> err, state |-> state, scanned |-> got.scanned,
     compose |-> compose]

DownArgs(in) ==
    IF in.volumes THEN "down --remove-orphans -v" ELSE "down --remove-orphans"

\* runReset that asks for no confirmation
ResetLoadedUnasked(in, got) ==
    IF got.err # "" THEN Result(got, got.fs, "notfound", got.state, <<>>)
    ELSE IF ~in.files THEN Result(got, got.fs, "", got.state, <<DownArgs(in)>>)
    ELSE Result(got,
                RemoveAll(got.fs, EnvironmentDir(got.state.ProjectName, got.state.Branch)),
                "", got.state, <<DownArgs(in)>>)

\* runReset going on after loadState has failed
ResetLoadedAnyway(in, got) ==
    Result(got,
           RemoveAll(got.fs, EnvironmentDir(got.state.ProjectName, got.state.Branch)),
           "", got.state, <<DownArgs(in)>>)

\* runReset once loadState has answered
ResetLoaded(in, got) ==
    IF got.err # "" THEN Result(got, got.fs, "notfound", got.state, <<>>)
    ELSE IF (in.volumes \/ in.files) /\ ~in.yes /\ (in.confirm.err \/ ~in.confirm.yes)
    THEN Result(got, got.fs, "aborted", got.state, <<>>)
    ELSE IF ~in.files THEN Result(got, got.fs, "", got.state, <<DownArgs(in)>>)
    ELSE IF in.fault = "remove"
    THEN Result(got, got.fs, "remove", got.state, <<DownArgs(in)>>)
    ELSE Result(got,
                RemoveAll(got.fs, EnvironmentDir(got.state.ProjectName, got.state.Branch)),
                "", got.state, <<DownArgs(in)>>)

\* runReset: err "aborted" is the declined confirmation, which the command
\* reports as success.  Fault "remove": os.RemoveAll fails
RunReset(fs, in) == ResetLoaded(in, LoadState(fs, in.cwd, in.fault))

\* odooctl docker reset
Reset(in) ==
    \E out \in {RunReset(FS(dirs, files), in)} :
        /\ dirs' = out.fs.dirs
        /\ files' = out.fs.files
        /\ last' = Outcome(IF in.files THEN "reset -c" ELSE "reset", in.cwd, out.err,
                           out.state.ProjectName, out.state.Branch, out.state,
                           out.scanned, out.compose)

OdooInit == "--profile init up odoo-init"

Psql == "exec -T db psql"

UpArgs(in, build) ==
    "up" \o (IF in.detach THEN " -d" ELSE "") \o (IF build THEN " --build" ELSE "")

\* the prompts of runRun, and what --build and --init are after them
AskBuild(in, s) == s.BuiltAt.nil /\ ~in.build /\ ~in.noPrompt

WantBuild(in, s) == in.build \/ (AskBuild(in, s) /\ in.confirmBuild.yes)

AskInit(in, s) == s.InitializedAt.nil /\ ~in.init /\ ~in.noPrompt

WantInit(in, s) == in.init \/ (AskInit(in, s) /\ in.confirmInit.yes)

\* (the steps of runRun follow, last first)

\* the save of InitializedAt
RunInitialized(got, s, up, saved) ==
    Result(got, saved.fs, IF saved.err # "" THEN "save" ELSE "", s, <<up, OdooInit, Psql>>)

\* the initialization, asked for or not
RunInit(in, got, fs, s, init, up) ==
    IF ~init THEN Result(got, fs, "", s, <<up>>)
    ELSE IF ~in.initOk THEN Result(got, fs, "init", s, <<up, OdooInit>>)
    ELSE IF s.InitializedAt.nil
    THEN RunInitialized(got, [s EXCEPT !.InitializedAt = PtrTime(Now(in.now2))], up,
                        Save(fs, [s EXCEPT !.InitializedAt = PtrTime(Now(in.now2))],
                             in.fault))
    ELSE Result(got, fs, "", s, <<up, OdooInit, Psql>>)

\* the save of BuiltAt
RunBuilt(in, got, s, init, up, saved) ==
    IF saved.err # "" THEN Result(got, saved.fs, "save", s, <<up>>)
    ELSE RunInit(in, got, saved.fs, s, init, up)

\* the build is stamped on every run that builds
RunUpStampsAgain(in, got, fs, s, build, init) ==
    IF ~in.upOk THEN Result(got, fs, "up", s, <<UpArgs(in, build)>>)
    ELSE IF build
    THEN RunBuilt(in, got, [s EXCEPT !.BuiltAt = PtrTime(Now(in.now))], init,
                  UpArgs(in, build),
                  Save(fs, [s EXCEPT !.BuiltAt = PtrTime(Now(in.now))], in.fault))
    ELSE RunInit(in, got, fs, s, init, UpArgs(in, build))

\* docker compose up, then the tracking of the first build
RunUp(in, got, fs, s, build, init) ==
    IF ~in.upOk THEN Result(got, fs, "up", s, <<UpArgs(in, build)>>)
    ELSE IF build /\ s.BuiltAt.nil
    THEN RunBuilt(in, got, [s EXCEPT !.BuiltAt = PtrTime(Now(in.now))], init,
                  UpArgs(in, build),
                  Save(fs, [s EXCEPT !.BuiltAt = PtrTime(Now(in.now))], in.fault))
    ELSE RunInit(in, got, fs, s, init, UpArgs(in, build))

RunPrompts(in, got, fs, s) ==
    IF AskBuild(in, s) /\ in.confirmBuild.err THEN Result(got, fs, "prompt", s, <<>>)
    ELSE IF AskInit(in, s) /\ in.confirmInit.err THEN Result(got, fs, "prompt", s, <<>>)
    ELSE RunUp(in, got, fs, s, WantBuild(in, s), WantInit(in, s))

\* the regeneration on a port conflict: the save
RunResaved(in, got, s, saved) ==
    IF saved.err # "" THEN Result(got, saved.fs, "save", s, <<>>)
    ELSE RunPrompts(in, got, saved.fs, s)

\* the regeneration on a port conflict: the render
RunRerendered(in, got, s, rendered) ==
    IF rendered.err # "" THEN Result(got, rendered.fs, "render", s, <<>>)
    ELSE RunResaved(in, got, s, Save(rendered.fs, s, in.fault))

RunRegenerate(in, got, s) == RunRerendered(in, got, s, Render(got.fs, s, in.fault))

\* the state is read again before the command goes on
RunLoadedFresh(in, got) ==
    IF got.err # "" THEN Result(got, got.fs, "notfound", got.state, <<>>)
    ELSE IF CheckPortsAvailable(LoadFromDir(got.fs, in.cwd, "none").state.Ports,
                                in.busy) # <<>>
    THEN RunRegenerate(in, got,
             [LoadFromDir(got.fs, in.cwd, "none").state EXCEPT
                 !.Ports = FindAvailablePorts(got.state.OdooVersion, in.busy)])
    ELSE RunPrompts(in, got, got.fs, LoadFromDir(got.fs, in.cwd, "none").state)

\* runRun once loadState has answered
RunLoaded(in, got) ==
    IF got.err # "" THEN Result(got, got.fs, "notfound", got.state, <<>>)
    ELSE IF CheckPortsAvailable(got.state.Ports, in.busy) # <<>>
    THEN RunRegenerate(in, got,
             [got.state EXCEPT !.Ports = FindAvailablePorts(got.state.OdooVersion, in.busy)])
    ELSE RunPrompts(in, got, got.fs, got.state)

\* runRun: [fs, err, state, scanned, compose]
RunRun(fs, in) == RunLoaded(in, LoadState(fs, in.cwd, in.fault))

\* odooctl docker run
Run(in) ==
    \E out \in {RunRun(FS(dirs, files), in)} :
        /\ dirs' = out.fs.dirs
        /\ files' = out.fs.files
        /\ last' = Outcome("run", in.cwd, out.err, out.state.ProjectName,
                           out.state.Branch, out.state, out.scanned, out.compose)

\* contains(slice, item)
Contains(elems, item) == \E i \in 1..Len(elems) : elems[i] = item

\* the loop that appends every item the list does not hold yet
RECURSIVE AppendMissing(_, _)
AppendMissing(elems, items) ==
    IF items = <<>> THEN elems
    ELSE AppendMissing(IF Contains(elems, Head(items)) THEN elems
                       ELSE Append(elems, Head(items)),
                       Tail(items))

\* (the steps of runReconfigure follow, last first)

\* the rebuild and the start asked for
ReconfigureRebuild(in, got, fs, s, stop) ==
    IF ~in.rebuild THEN Result(got, fs, "", s, stop)
    ELSE IF ~in.buildOk THEN Result(got, fs, "rebuild", s, stop \o <<"build --no-cache">>)
    ELSE IF ~in.start THEN Result(got, fs, "", s, stop \o <<"build --no-cache">>)
    ELSE Result(got, fs, IF in.upOk THEN "" ELSE "up", s,
                stop \o <<"build --no-cache", "up -d">>)

ReconfigureSaved(in, got, s, stop, saved) ==
    IF saved.err # "" THEN Result(got, saved.fs, "save", s, stop)
    ELSE ReconfigureRebuild(in, got, saved.fs, s, stop)

ReconfigureRendered(in, got, s, stop, rendered) ==
    IF rendered.err # "" THEN Result(got, rendered.fs, "render", s, stop)
    ELSE ReconfigureSaved(in, got, s, stop, Save(rendered.fs, s, in.fault))

\* the lists are compared by length, then the state is updated and written
ReconfigureLists(in, got, pip, addons) ==
    IF Len(pip) = Len(got.state.PipPackages.elems)
       /\ Len(addons) = Len(got.state.AddonsPaths.elems)
    THEN Result(got, got.fs, "nochange", got.state, <<>>)
    ELSE ReconfigureRendered(in, got,
             [got.state EXCEPT !.PipPackages = Slice(pip), !.AddonsPaths = Slice(addons)],
             IF in.stopFirst THEN <<"down">> ELSE <<>>,
             Render(got.fs,
                    [got.state EXCEPT !.PipPackages = Slice(pip),
                                      !.AddonsPaths = Slice(addons)],
                    in.fault))

\* the packages found by the discovery are appended as they are
WithDiscovered(in, pip) == IF in.autoDiscover THEN pip \o in.discovered ELSE pip

\* runReconfigure once loadState has answered
ReconfigureLoaded(in, got) ==
    IF got.err # "" THEN Result(got, got.fs, "notfound", got.state, <<>>)
    ELSE ReconfigureLists(in, got,
             WithDiscovered(in, AppendMissing(got.state.PipPackages.elems, in.addPip)),
             AppendMissing(got.state.AddonsPaths.elems, in.addPaths))

\* runReconfigure: [fs, err, state, scanned, compose]; err "nochange" is the
\* early return "No changes to apply", which the command reports as success
RunReconfigure(fs, in) == ReconfigureLoaded(in, LoadState(fs, in.cwd, in.fault))

\* odooctl docker reconfigure
Reconfigure(in) ==
    \E out \in {RunReconfigure(FS(dirs, files), in)} :
        /\ dirs' = out.fs.dirs
        /\ files' = out.fs.files
        /\ last' = Outcome("reconfigure", in.cwd, out.err, out.state.ProjectName,
                           out.state.Branch, out.state, out.scanned, out.compose)

----------------------------------------------------------------------------
(* internal/module and odooctl docker install *)

\* filepath.Match for patterns made of literal bytes, ? and *; neither
\* wildcard matches the separator
RECURSIVE Match(_, _)
Match(pattern, name) ==
    IF pattern = "" THEN name = ""
    ELSE IF Ch(pattern, 1) = "*"
    THEN \/ Match(Rest(pattern), name)
         \/ name # "" /\ Ch(name, 1) # "/" /\ Match(pattern, Rest(name))
    ELSE /\ name # ""
         /\ IF Ch(pattern, 1) = "?" THEN Ch(name, 1) # "/"
            ELSE Ch(pattern, 1) = Ch(name, 1)
         /\ Match(Rest(pattern), Rest(name))

\* strings.ContainsAny(arg, "*?[")
IsPattern(arg) == \E i \in 1..Len(arg) : Ch(arg, i) \in {"*", "?", "["}

\* strings.ToLower for ASCII
RECURSIVE ToLower(_)
ToLower(s) ==
    IF s = "" THEN ""
    ELSE (IF \E k \in 1..26 : Ch("ABCDEFGHIJKLMNOPQRSTUVWXYZ", k) = Ch(s, 1)
          THEN Ch("abcdefghijklmnopqrstuvwxyz",
                  CHOOSE k \in 1..26 : Ch("ABCDEFGHIJKLMNOPQRSTUVWXYZ", k) = Ch(s, 1))
          ELSE Ch(s, 1)) \o ToLower(Rest(s))

\* strings.Join(elems, ",")
RECURSIVE JoinComma(_)
JoinComma(elems) ==
    IF elems = <<>> THEN ""
    ELSE IF Len(elems) = 1 THEN elems[1]
    ELSE elems[1] \o "," \o JoinComma(Tail(elems))

DefaultExcludePatterns ==
    <<"*.pyc", "*.pyo", "*.pyd", "__pycache__/*", "static/*", "tests/*",
      "i18n/*.pot", "i18n_extra/*.pot", ".git/*">>

\* shouldExclude: a pattern matches the relative path or one of its leading
\* parts
ShouldExclude(relPath) ==
    \E k \in 1..Len(DefaultExcludePatterns) :
        \/ Match(DefaultExcludePatterns[k], relPath)
        \/ \E i \in 1..Len(SplitPath(relPath)) :
               Match(DefaultExcludePatterns[k],
                     JoinSegs(SubSeq(SplitPath(relPath), 1, i)))

\* module.IsModule
IsModule(fs, dir) == IsFile(fs, Join(dir, "__manifest__.py"))

\* module.FindModules: the directories of root that are modules, sorted
FindModules(fs, root) ==
    IF ~IsDir(fs, root) THEN <<>>
    ELSE SelectSeq(SubDirs(fs, root), LAMBDA name : IsModule(fs, Join(root, name)))

\* module.ExpandPatterns
RECURSIVE ExpandPatterns(_, _, _)
ExpandPatterns(patterns, available, result) ==
    IF patterns = <<>> THEN result
    ELSE ExpandPatterns(
             Tail(patterns), available,
             IF IsPattern(Head(patterns))
             THEN result \o SelectSeq(available,
                                      LAMBDA mod : /\ Match(Head(patterns), mod)
                                                   /\ ~Contains(result, mod))
             ELSE IF Contains(result, Head(patterns)) THEN result
             ELSE Append(result, Head(patterns)))

\* what the hasher of module.Hash is fed: for each file kept, in the order
\* of the sorted paths, its relative path and then its content
RECURSIVE HashInput(_, _, _)
HashInput(fs, moduleDir, paths) ==
    IF paths = <<>> THEN ""
    ELSE SubSeq(Head(paths), Len(moduleDir) + 2, Len(Head(paths)))
             \o fs.files[Head(paths)].text
             \o HashInput(fs, moduleDir, Tail(paths))

\* module.Hash: SHA256 is taken as one-to-one on what it is fed
Hash(fs, moduleDir) ==
    IF ~IsDir(fs, moduleDir) THEN [hash |-> "", err |-> "walk"]
    ELSE [hash |-> HashInput(fs, moduleDir,
                      SortNames({p \in DOMAIN fs.files :
                          /\ HasPrefix(p, moduleDir \o "/")
                          /\ ~ShouldExclude(SubSeq(p, Len(moduleDir) + 2, Len(p)))})),
          err |-> ""]

\* State.DBName: strings.Replace(version, ".", "", 1)
RECURSIVE DropFirstDot(_)
DropFirstDot(s) ==
    IF s = "" THEN ""
    ELSE IF Ch(s, 1) = "." THEN Rest(s)
    ELSE Ch(s, 1) \o DropFirstDot(Rest(s))

DBName(s) == "odoo-" \o DropFirstDot(s.OdooVersion)

\* the docker compose arguments of runOdooUpdate
OdooUpdateArgs(s, install, update) ==
    "run --rm odoo odoo -c /etc/odoo/odoo.conf -d " \o DBName(s)
        \o (IF install # <<>> THEN " -i " \o JoinComma(install) ELSE "")
        \o (IF update # <<>> THEN " -u " \o JoinComma(update) ELSE "")
        \o " --stop-after-init"

HashFilePath(s) == Join(EnvironmentDir(s.ProjectName, s.Branch), "module-hashes.json")

NoHashes == [m \in {} |-> ""]

\* the bytes of module-hashes.json
HashesFile(hashes) == [kind |-> "hashes", text |-> "", doc |-> hashes]

\* loadHashes
LoadHashes(fs, s) ==
    IF ~IsFile(fs, HashFilePath(s)) THEN [hashes |-> NoHashes, err |-> "notexist"]
    ELSE IF fs.files[HashFilePath(s)].kind # "hashes"
    THEN [hashes |-> NoHashes, err |-> "corrupt"]
    ELSE [hashes |-> fs.files[HashFilePath(s)].doc, err |-> ""]

\* saveHashes.  Fault "hashes": os.WriteFile fails
SaveHashes(fs, s, hashes, fault) ==
    IF fault = "hashes" \/ ~CanWriteFile(fs, HashFilePath(s))
    THEN [fs |-> fs, err |-> "hashes"]
    ELSE [fs |-> WriteFile(fs, HashFilePath(s), HashesFile(hashes)), err |-> ""]

\* for k, v := range currentHashes { storedHashes[k] = v }
MergeHashes(stored, current) ==
    [m \in DOMAIN stored \cup DOMAIN current |->
        IF m \in DOMAIN current THEN current[m] ELSE stored[m]]

\* the arguments sorted into local and external targets
RECURSIVE SortTargets(_, _, _, _)
SortTargets(args, localModules, ignoreCore, targets) ==
    IF args = <<>> THEN targets
    ELSE SortTargets(
             Tail(args), localModules, ignoreCore,
             IF IsPattern(Head(args))
             THEN [targets EXCEPT !.local =
                       @ \o ExpandPatterns(<<Head(args)>>, localModules, <<>>)]
             ELSE IF Contains(localModules, Head(args))
             THEN [targets EXCEPT !.local = Append(@, Head(args))]
             ELSE IF ~ignoreCore
             THEN [targets EXCEPT !.external = Append(@, Head(args))]
             ELSE targets)

\* no argument, or the one argument "all": every local module
Targets(in, localModules) ==
    IF in.args = <<>> \/ (Len(in.args) = 1 /\ ToLower(in.args[1]) = "all")
    THEN [local |-> localModules, external |-> <<>>]
    ELSE SortTargets(in.args, localModules, in.ignoreCore,
                     [local |-> <<>>, external |-> <<>>])

\* --ignore: the names between the commas, trimmed
Ignored(in) ==
    IF in.ignore = "" THEN {}
    ELSE {TrimSpace(SplitOn(in.ignore, ",", "", <<>>)[i]) :
              i \in 1..Len(SplitOn(in.ignore, ",", "", <<>>))}

Unignored(in, targets) ==
    [local |-> SelectSeq(targets.local, LAMBDA m : m \notin Ignored(in)),
     external |-> SelectSeq(targets.external, LAMBDA m : m \notin Ignored(in))]

\* the hashes of the local targets that could be hashed
CurrentHashes(fs, s, local) ==
    [m \in {local[i] : i \in {j \in 1..Len(local) :
                                 Hash(fs, Join(s.ProjectRoot, local[j])).err = ""}} |->
        Hash(fs, Join(s.ProjectRoot, m)).hash]

\* the local targets with no stored hash, and those whose stored hash differs
LocalInstall(local, stored, current) ==
    SelectSeq(local, LAMBDA m : m \in DOMAIN current /\ m \notin DOMAIN stored)

LocalUpdate(local, stored, current) ==
    SelectSeq(local, LAMBDA m : /\ m \in DOMAIN current
                                /\ m \in DOMAIN stored
                                /\ stored[m] # current[m])

\* (the steps of runInstall follow, last first)

\* the hashes are stored after an install that succeeded and a restart that
\* did; a failure to store them is a warning
InstallStored(got, fs, s, current, compose) ==
    IF DOMAIN current = {} THEN Result(got, fs, "", s, compose)
    ELSE Result(got,
                SaveHashes(fs, s, MergeHashes(LoadHashes(fs, s).hashes, current),
                           "none").fs,
                "", s, compose)

\* the hashes are stored whatever the update did
InstallRunStoresAnyway(in, got, fs, s, current, compose) ==
    IF ~in.updateOk THEN Result(got, InstallStored(got, fs, s, current, compose).fs,
                                "install", s, compose)
    ELSE IF ~in.upOk THEN Result(got, fs, "restart", s, compose)
    ELSE InstallStored(got, fs, s, current, compose)

\* stop odoo (a failure is a warning), the update, and the restart that
\* follows whatever the update did
InstallRun(in, got, fs, s, current, compose) ==
    IF ~in.updateOk THEN Result(got, fs, "install", s, compose)
    ELSE IF ~in.upOk THEN Result(got, fs, "restart", s, compose)
    ELSE InstallStored(got, fs, s, current, compose)

\* --compute-hashes, --list-only, nothing to do, or the install
InstallCompared(in, got, s, targets, stored, current, localInstall, localUpdate) ==
    IF targets.local # <<>> /\ in.computeHashes
    THEN Result(got,
                SaveHashes(got.fs, s, MergeHashes(stored, current), in.fault).fs,
                SaveHashes(got.fs, s, MergeHashes(stored, current), in.fault).err,
                s, <<>>)
    ELSE IF targets.local # <<>> /\ in.listOnly THEN Result(got, got.fs, "", s, <<>>)
    ELSE IF localInstall = <<>> /\ localUpdate = <<>> /\ targets.external = <<>>
    THEN Result(got, got.fs, "", s, <<>>)
    ELSE InstallRun(in, got, got.fs, s, current,
                    <<"stop odoo",
                      OdooUpdateArgs(s, targets.external \o localInstall, localUpdate),
                      "up -d odoo">>)

InstallHashed(in, got, s, targets, stored, current) ==
    InstallCompared(in, got, s, targets, stored, current,
                    LocalInstall(targets.local, stored, current),
                    LocalUpdate(targets.local, stored, current))

InstallTargets(in, got, s, targets) ==
    InstallHashed(in, got, s, targets,
                  IF targets.local = <<>> THEN NoHashes ELSE LoadHashes(got.fs, s).hashes,
                  IF targets.local = <<>> THEN NoHashes
                  ELSE CurrentHashes(got.fs, s, targets.local))

\* runInstall once loadState has answered
InstallLoaded(in, got) ==
    IF got.err # "" THEN Result(got, got.fs, "notfound", got.state, <<>>)
    ELSE IF in.updateAll
    THEN InstallRun(in, got, got.fs, got.state, NoHashes,
                    <<"stop odoo", OdooUpdateArgs(got.state, <<>>, <<"base">>),
                      "up -d odoo">>)
    ELSE InstallTargets(in, got, got.state,
                        Unignored(in, Targets(in, FindModules(got.fs,
                                                              got.state.ProjectRoot))))

\* runInstall: [fs, err, state, scanned, compose]
RunInstall(fs, in) == InstallLoaded(in, LoadState(fs, in.cwd, "none"))

\* odooctl docker install
Install(in) ==
    \E out \in {RunInstall(FS(dirs, files), in)} :
        /\ dirs' = out.fs.dirs
        /\ files' = out.fs.files
        /\ last' = Outcome("install", in.cwd, out.err, out.state.ProjectName,
                           out.state.Branch, out.state, out.scanned, out.compose)
----------------------------------------------------------------------------
(* The specification: one user at a shell, one command at a time *)

\* the directories commands are run in: two working trees with the same base
\* name, and a subdirectory of the first
TreeA == "/w/demo"

TreeB == "/v/demo"

SubA == "/w/demo/src"

Cwds == {TreeA, TreeB, SubA}

\* the creates tried: where, what git answers there, and --name.  The last but
\* one is a directory outside git with a name that ends in a space
Surroundings ==
    { [cwd |-> TreeA, git |-> GitRepo(TreeA, "main"), flagName |-> ""],
      [cwd |-> TreeA, git |-> GitRepo(TreeA, ""),     flagName |-> ""],
      [cwd |-> TreeA, git |-> NoGit,                  flagName |-> "e "],
      [cwd |-> TreeB, git |-> GitRepo(TreeB, "main"), flagName |-> ""] }

Instants == 1..MaxTime

NoAuth == [err |-> FALSE, entered |-> FALSE, token |-> "", key |-> ""]

CreateInputsOf(surroundings, faults) ==
    { [cwd |-> sur.cwd, git |-> sur.git, flagName |-> sur.flagName,
       flagOdooVersion |-> "18.0", versionFile |-> NoFile, envVersion |-> "",
       prompt |-> [err |-> FALSE, v |-> ""], flagModules |-> "",
       flagEnterprise |-> FALSE, auth |-> NoAuth, flagWithoutDemo |-> FALSE,
       pip |-> NilSlice, addons |-> NilSlice, now |-> now, fault |-> fault] :
      sur \in surroundings, now \in Instants, fault \in faults }

CreateInputs == CreateInputsOf(Surroundings, {"none"})

ResetInputs ==
    { [cwd |-> cwd, volumes |-> FALSE, files |-> f, yes |-> TRUE,
       confirm |-> Answer(FALSE, FALSE), fault |-> "none"] :
      cwd \in {TreeA, TreeB}, f \in BOOLEAN }

RunInputs ==
    { [cwd |-> cwd, build |-> TRUE, init |-> FALSE, detach |-> TRUE, noPrompt |-> TRUE,
       confirmBuild |-> Answer(FALSE, FALSE), confirmInit |-> Answer(FALSE, FALSE),
       busy |-> {}, upOk |-> TRUE, initOk |-> TRUE, now |-> now, now2 |-> now,
       fault |-> "none"] :
      cwd \in {TreeA}, now \in Instants }

ReconfigureInputs ==
    { [cwd |-> cwd, addPip |-> <<"requests">>, addPaths |-> <<>>,
       autoDiscover |-> FALSE, discovered |-> <<>>, stopFirst |-> TRUE,
       rebuild |-> FALSE, buildOk |-> TRUE, start |-> FALSE, upOk |-> TRUE,
       fault |-> "none"] : cwd \in {TreeA} }

LookupFaults == {"none", "marker"}

InitDirs == UNION {Ancestors(d) : d \in Cwds \cup {HomeDir}}

Init ==
    /\ dirs = InitDirs
    /\ files = [p \in {} |-> NoDoc]
    /\ last = Outcome("none", "", "", "", "", ZeroState, FALSE, <<>>)

Next ==
    \/ \E in \in CreateInputs : Create(in)
    \/ \E cwd \in Cwds, fault \in LookupFaults : Lookup(cwd, fault)
    \/ \E in \in RunInputs : Run(in)
    \/ \E in \in ReconfigureInputs : Reconfigure(in)
    \/ \E in \in ResetInputs : Reset(in)

Spec == Init /\ [][Next]_vars

----------------------------------------------------------------------------
(* The same commands on a file system that fails: a write of the state file *)
(* or of the marker may fail or stop after the truncation, and a marker may *)
(* be unreadable                                                            *)

\* the creates tried: two working trees that take the same identity, and the
\* first of them outside git
SurroundingsFaults ==
    { [cwd |-> TreeA, git |-> GitRepo(TreeA, "main"), flagName |-> ""],
      [cwd |-> TreeA, git |-> NoGit,                  flagName |-> ""],
      [cwd |-> TreeB, git |-> GitRepo(TreeB, "main"), flagName |-> ""] }

CreateInputsFaults ==
    CreateInputsOf(SurroundingsFaults, {"none", "stateCut", "marker", "markerCut"})

LookupFaultsAll == {"none", "markerRead", "marker", "markerCut"}

ResetInputsFaults == {in \in ResetInputs : in.files}

NextFaults ==
    \/ \E in \in CreateInputsFaults : Create(in)
    \/ \E cwd \in Cwds, fault \in LookupFaultsAll : Lookup(cwd, fault)
    \/ \E in \in RunInputs : Run(in)
    \/ \E in \in ReconfigureInputs : Reconfigure(in)
    \/ \E in \in ResetInputsFaults : Reset(in)

SpecFaults == Init /\ [][NextFaults]_vars

----------------------------------------------------------------------------
(* Save and Load of one record: a state is built in memory, saved, and *)
(* loaded back by its identity                                           *)

\* the lists tried: nil, empty, one element
RoundTripLists == {NilSlice, Slice(<<>>), Slice(<<"base">>)}

\* the times tried: read from the clock, or read from a state file
RoundTripTimes == {Now(t) : t \in Instants} \cup {[sec |-> t, mono |-> FALSE] : t \in Instants}

RoundTripPtrs == {NilTime} \cup {PtrTime(t) : t \in RoundTripTimes}

RoundTripStates ==
    { [ProjectName |-> "demo", OdooVersion |-> "18.0", Branch |-> "main",
       IsGitRepo |-> TRUE, ProjectRoot |-> TreeA, Modules |-> m,
       Enterprise |-> tok # "", EnterpriseGitHubToken |-> tok,
       EnterpriseSSHKeyPath |-> "", WithoutDemo |-> FALSE, PipPackages |-> p,
       AddonsPaths |-> a, Ports |-> CalculatePorts("18.0"), CreatedAt |-> c,
       InitializedAt |-> i, BuiltAt |-> b] :
      m \in RoundTripLists, p \in RoundTripLists, a \in RoundTripLists,
      tok \in {"", "ghp"}, c \in RoundTripTimes, i \in RoundTripPtrs,
      b \in RoundTripPtrs }

RoundTrip(cmd, err, state, loaded) ==
    [cmd |-> cmd, err |-> err, state |-> state, loaded |-> loaded]

InitRoundTrip ==
    /\ dirs = InitDirs
    /\ files = [p \in {} |-> NoDoc]
    /\ \E s \in RoundTripStates : last = RoundTrip("new", "", s, ZeroState)

\* state.Save()
SaveState ==
    /\ last.cmd = "new"
    /\ \E saved \in {Save(FS(dirs, files), last.state, "none")} :
           /\ dirs' = saved.fs.dirs
           /\ files' = saved.fs.files
           /\ last' = RoundTrip("save", saved.err, last.state, ZeroState)

\* config.Load(state.ProjectName, state.Branch)
LoadSaved ==
    /\ last.cmd = "save" /\ last.err = ""
    /\ \E got \in {Load(FS(dirs, files), last.state.ProjectName, last.state.Branch)} :
           last' = RoundTrip("load", got.err, last.state, got.state)
    /\ UNCHANGED <<dirs, files>>

NextRoundTrip == SaveState \/ LoadSaved

SpecRoundTrip == InitRoundTrip /\ [][NextRoundTrip]_vars

----------------------------------------------------------------------------
(* Two processes: one runs State.Save system call by system call, the other *)
(* runs Load or LoadFromDir between any two of them                         *)

\* the creates whose states are saved: /w/demo inside and outside git
RaceInputs ==
    {in \in CreateInputsOf(SurroundingsFaults, {"none"}) : in.cwd = TreeA}

\* the states saved: as runCreate builds them, and as runRun and
\* runReconfigure save them again
RaceStates ==
    { [CreateState(in, CreateContext(in)) EXCEPT !.BuiltAt = b, !.PipPackages = p] :
      in \in RaceInputs, b \in {NilTime} \cup {PtrTime(Now(t)) : t \in Instants},
      p \in {NilSlice, Slice(<<"requests">>)} }

\* the environment that is there from the start: demo/main of /w/demo
RaceFirst ==
    CHOOSE st \in RaceStates :
        st.IsGitRepo /\ st.BuiltAt = NilTime /\ st.PipPackages = NilSlice
            /\ st.CreatedAt = Now(1)

NotSeen == [op |-> "none", at |-> "", err |-> "", state |-> ZeroState]

\* what the reader got
Seen(op, at, got) == [op |-> op, at |-> at, err |-> got.err, state |-> got.state]

\* the two processes: the writer's position in Save, the state it saves and
\* its error, and what the reader's latest call returned
Race(cmd, pc, err, state, seen) ==
    [cmd |-> cmd, pc |-> pc, err |-> err, state |-> state, seen |-> seen]

\* the system calls of Save in the order the marker would come first
AfterMarkerFirst(pc) ==
    IF pc = "mkdir" THEN "markerOpen"
    ELSE IF pc = "markerOpen" THEN "markerWrite"
    ELSE IF pc = "markerWrite" THEN "open"
    ELSE IF pc = "open" THEN "write"
    ELSE "idle"

\* the system calls of Save in program order: os.MkdirAll, the open and the
\* write of os.WriteFile for the state file, the same two for the marker
After(pc) ==
    IF pc = "mkdir" THEN "open"
    ELSE IF pc = "open" THEN "write"
    ELSE IF pc = "write" THEN "markerOpen"
    ELSE IF pc = "markerOpen" THEN "markerWrite"
    ELSE "idle"

InitRace ==
    \E saved \in {Save(FS(InitDirs, [p \in {} |-> NoDoc]), RaceFirst, "none")} :
        /\ dirs = saved.fs.dirs
        /\ files = saved.fs.files
        /\ last = Race("none", "idle", "", RaceFirst, NotSeen)

\* a step of the writer that changes the file system to fs
SaveStep(fs, pc, err) ==
    /\ dirs' = fs.dirs
    /\ files' = fs.files
    /\ last' = Race("save", pc, err, last.state, last.seen)

\* s.Save() is called
SaveCall(st) ==
    /\ last.pc = "idle"
    /\ last' = Race("save", "mkdir", "", st, last.seen)
    /\ UNCHANGED <<dirs, files>>

\* os.MkdirAll(dir, 0755)
SaveMkdirAll ==
    /\ last.pc = "mkdir"
    /\ SaveStep(MkdirAll(FS(dirs, files),
                         EnvironmentDir(last.state.ProjectName, last.state.Branch)),
                After("mkdir"), "")

\* os.WriteFile of the state file: the open with O_CREATE and O_TRUNC
SaveOpenState(ok) ==
    /\ last.pc = "open"
    /\ IF ok
       THEN SaveStep(WriteFile(FS(dirs, files), Join(EnvironmentDir(last.state.ProjectName, last.state.Branch), StateFileName), TextFile("")),
                     After("open"), "")
       ELSE SaveStep(FS(dirs, files), "idle", "state")

\* os.WriteFile of the state file: the write of the marshalled state
SaveWriteState(ok) ==
    /\ last.pc = "write"
    /\ IF ok
       THEN SaveStep(WriteFile(FS(dirs, files), Join(EnvironmentDir(last.state.ProjectName, last.state.Branch), StateFileName),
                               JsonFile(MarshalState(last.state))),
                     After("write"), "")
       ELSE SaveStep(FS(dirs, files), "idle", "state")

\* os.WriteFile of the marker: the open with O_CREATE and O_TRUNC
SaveOpenMarker(ok) ==
    /\ last.pc = "markerOpen"
    /\ IF ok
       THEN SaveStep(WriteFile(FS(dirs, files),
                               Join(last.state.ProjectRoot, MarkerFileName),
                               TextFile("")),
                     After("markerOpen"), "")
       ELSE SaveStep(FS(dirs, files), "idle", "marker")

\* os.WriteFile of the marker: the write of the environment directory
SaveWriteMarker(ok) ==
    /\ last.pc = "markerWrite"
    /\ IF ok
       THEN SaveStep(WriteFile(FS(dirs, files),
                               Join(last.state.ProjectRoot, MarkerFileName),
                               TextFile(EnvironmentDir(last.state.ProjectName,
                                                       last.state.Branch))),
                     After("markerWrite"), "")
       ELSE SaveStep(FS(dirs, files), "idle", "marker")

\* the other process calls config.Load(projectName, branch)
ReaderLoad(projectName, branch) ==
    /\ \E got \in {Load(FS(dirs, files), projectName, branch)} :
           last' = Race("load", last.pc, last.err, last.state,
                        Seen("Load", Join(EnvironmentDir(projectName, branch), StateFileName), got))
    /\ UNCHANGED <<dirs, files>>

\* the other process calls config.LoadFromDir(dir)
ReaderLoadFromDir(dir) ==
    \E got \in {LoadFromDir(FS(dirs, files), dir, "none")} :
        /\ dirs' = got.fs.dirs
        /\ files' = got.fs.files
        /\ last' = Race("loadFromDir", last.pc, last.err, last.state,
                        Seen("LoadFromDir", dir, got))

NextRace ==
    \/ \E st \in RaceStates : SaveCall(st)
    \/ SaveMkdirAll
    \/ \E ok \in BOOLEAN : SaveOpenState(ok)
    \/ \E ok \in BOOLEAN : SaveWriteState(ok)
    \/ \E ok \in BOOLEAN : SaveOpenMarker(ok)
    \/ \E ok \in BOOLEAN : SaveWriteMarker(ok)
    \/ ReaderLoad("demo", "main")
    \/ ReaderLoadFromDir(TreeA)

SpecRace == InitRace /\ [][NextRace]_vars

----------------------------------------------------------------------------
(* The pure functions, each applied to inputs drawn from a bounded set *)

\* the bytes names are made of: a letter, the separator, the dot, a space,
\* the two other safe signs
NameChars == {"a", "/", ".", " ", "-", "_"}

\* the names of at most n bytes
RECURSIVE NamesUpTo(_)
NamesUpTo(n) ==
    IF n = 0 THEN {""}
    ELSE NamesUpTo(n - 1) \cup {name \o c : name \in NamesUpTo(n - 1), c \in NameChars}

NameInputs == NamesUpTo(MaxNameLen)

VersionInputs ==
    {"12.0", "16.0", "17.0", "18.0", "19.0", "17", "18.0-feature", " 18.0", "+18",
     "-1.0", "", "abc", "v17"}

\* the ports held by other listeners: the first n attempts are blocked through
\* one of the four ports, and one later port may be held as well
BlockedPorts(base, field, n) == {base[field] + (k * 10) : k \in 0..(n - 1)}

PortsInputs ==
    { [version |-> v,
       busy |-> BlockedPorts(CalculatePorts(v), field, n)
                    \cup (IF later THEN {CalculatePorts(v).Debug + 20} ELSE {})] :
      v \in {"17.0", "18.0"}, field \in {"Odoo", "Mailhog", "SMTP", "Debug"},
      n \in 0..10, later \in BOOLEAN }

\* the branches HEAD may be on
BranchInputs == {"main", "17.0", "18.0-feature", "16.0.1", "19", "v17.0", ""}

VersionFiles == {NoFile, FileWith("17.0"), FileWith("")}

\* where Detect runs: inside the repository at TreeA or outside any
\* repository, in TreeA or in its subdirectory, with or without an
\* .odooversion file in each of the two, with or without ODOO_VERSION
DetectInputs ==
    { [cwd |-> cwd, git |-> git,
       read |-> [p \in {Join(TreeA, ".odooversion"), Join(SubA, ".odooversion")} |->
                    IF p = Join(TreeA, ".odooversion") THEN atTree ELSE atSub],
       envVersion |-> env] :
      cwd \in {TreeA, SubA},
      git \in {NoGit} \cup {GitRepo(TreeA, b) : b \in BranchInputs},
      atTree \in VersionFiles, atSub \in VersionFiles, env \in {"", "18.0"} }

Pure(cmd, in, out) == [cmd |-> cmd, in |-> in, out |-> out]

InitPure ==
    /\ dirs = InitDirs
    /\ files = [p \in {} |-> NoDoc]
    /\ \/ \E name \in NameInputs : last = Pure("name", name, "")
       \/ \E v \in VersionInputs : last = Pure("version", v, ZeroPorts)
       \/ \E in \in PortsInputs : last = Pure("ports", in, ZeroPorts)
       \/ \E in \in DetectInputs : last = Pure("dir", in, "")

\* config.SanitizeName(name)
ApplySanitizeName ==
    /\ last.cmd = "name"
    /\ last' = Pure("SanitizeName", last.in, SanitizeName(last.in))
    /\ UNCHANGED <<dirs, files>>

\* config.CalculatePorts(version)
ApplyCalculatePorts ==
    /\ last.cmd = "version"
    /\ last' = Pure("CalculatePorts", last.in, CalculatePorts(last.in))
    /\ UNCHANGED <<dirs, files>>

\* config.FindAvailablePorts(version) while other listeners hold the ports busy
ApplyFindAvailablePorts ==
    /\ last.cmd = "ports"
    /\ last' = Pure("FindAvailablePorts", last.in,
                    FindAvailablePorts(last.in.version, last.in.busy))
    /\ UNCHANGED <<dirs, files>>

\* project.Detect(dir)
ApplyDetect ==
    /\ last.cmd = "dir"
    /\ last' = Pure("Detect", last.in,
                    DetectIn(last.in.cwd, last.in.git, last.in.read, last.in.envVersion))
    /\ UNCHANGED <<dirs, files>>

NextPure ==
    ApplySanitizeName \/ ApplyCalculatePorts \/ ApplyFindAvailablePorts \/ ApplyDetect

SpecPure == InitPure /\ [][NextPure]_vars

----------------------------------------------------------------------------
(* The life of one environment: create, run with its prompts, its port    *)
(* conflicts and the failures of docker compose, reconfigure, reset       *)

LifeInstants == 1..(MaxTime + 1)

\* the ports other listeners hold when run checks them: none, one port of
\* the calculated four, the first two attempts (through different ports),
\* every attempt
LifeBusy ==
    { {},
      {CalculatePorts("18.0").Mailhog},
      {CalculatePorts("18.0").Odoo, CalculatePorts("18.0").Mailhog + PortStep},
      BlockedPorts(CalculatePorts("18.0"), "Debug", PortAttempts) }

LifeAnswers == {Answer(FALSE, TRUE), Answer(FALSE, FALSE), Answer(TRUE, FALSE)}

LifeCreateInputs ==
    CreateInputsOf({[cwd |-> TreeA, git |-> GitRepo(TreeA, "main"), flagName |-> ""]},
                   {"none"})

\* one invocation of run
LifeRun(build, init, noPrompt, confirmBuild, confirmInit, busy, upOk, initOk, now) ==
    [cwd |-> TreeA, build |-> build, init |-> init, detach |-> TRUE,
     noPrompt |-> noPrompt, confirmBuild |-> confirmBuild,
     confirmInit |-> confirmInit, busy |-> busy, upOk |-> upOk, initOk |-> initOk,
     now |-> now, now2 |-> now, fault |-> "none"]

\* the runs tried: every pair of flags under every set of held ports, the
\* failures of compose up and of the initialization, and the prompts
LifeRunInputs ==
    { LifeRun(build, init, TRUE, Answer(FALSE, FALSE), Answer(FALSE, FALSE), busy,
              TRUE, TRUE, now) :
      build \in BOOLEAN, init \in BOOLEAN, busy \in LifeBusy, now \in LifeInstants }
    \cup
    { LifeRun(build, init, TRUE, Answer(FALSE, FALSE), Answer(FALSE, FALSE), {},
              upOk, ~upOk, 1) :
      build \in BOOLEAN, init \in BOOLEAN, upOk \in BOOLEAN }
    \cup
    { LifeRun(FALSE, FALSE, FALSE, confirmBuild, confirmInit, {}, TRUE, TRUE, now) :
      confirmBuild \in LifeAnswers, confirmInit \in LifeAnswers,
      now \in LifeInstants }

\* the resets tried: the three flags, and the answers to the confirmation
LifeResetInputs ==
    { [cwd |-> TreeA, volumes |-> v, files |-> f, yes |-> yes, confirm |-> confirm,
       fault |-> "none"] :
      v \in BOOLEAN, f \in BOOLEAN, yes \in BOOLEAN,
      confirm \in LifeAnswers }

NextLife ==
    \/ \E in \in LifeCreateInputs : Create(in)
    \/ \E in \in LifeRunInputs : Run(in)
    \/ \E in \in ReconfigureInputs : Reconfigure(in)
    \/ \E in \in LifeResetInputs : Reset(in)

SpecLife == Init /\ [][NextLife]_vars
----------------------------------------------------------------------------
(* Installing modules: one environment, created in a working tree that    *)
(* holds two local modules, whose files the developer edits between       *)
(* installs                                                               *)

LocalModules == {"la", "lb"}

ManifestOf(m) == Join(Join(TreeA, m), "__manifest__.py")

ModuleTexts == {"1", "2"}

\* one invocation of install
InstallInput(args, listOnly, computeHashes, ignore, updateAll, ignoreCore, updateOk,
             upOk, fault) ==
    [cwd |-> TreeA, args |-> args, listOnly |-> listOnly,
     computeHashes |-> computeHashes, ignore |-> ignore, updateAll |-> updateAll,
     ignoreCore |-> ignoreCore, updateOk |-> updateOk, upOk |-> upOk, fault |-> fault]

\* the module arguments tried: none, "all", a local module, a core module,
\* patterns, and mixes of them
InstallArgs ==
    {<<>>, <<"All">>, <<"la">>, <<"sale">>, <<"l*">>, <<"sale", "lb">>, <<"?a", "la">>}

\* how the update and the restart end
InstallEnds == {<<TRUE, TRUE>>, <<FALSE, TRUE>>, <<TRUE, FALSE>>}

InstallInputs ==
    { InstallInput(args, listOnly, FALSE, "", FALSE, FALSE, end[1], end[2], "none") :
      args \in InstallArgs, listOnly \in BOOLEAN, end \in InstallEnds }
    \cup
    { InstallInput(args, listOnly, TRUE, "", FALSE, FALSE, TRUE, TRUE, fault) :
      args \in {<<>>, <<"sale">>}, listOnly \in BOOLEAN, fault \in {"none", "hashes"} }
    \cup
    { InstallInput(args, listOnly, FALSE, IF ignoreCore THEN "" ELSE "lb, sale", FALSE,
                   ignoreCore, TRUE, TRUE, "none") :
      args \in {<<"sale">>, <<"l*">>, <<"sale", "lb">>}, listOnly \in BOOLEAN,
      ignoreCore \in BOOLEAN }
    \cup
    { InstallInput(<<>>, listOnly, FALSE, "", TRUE, FALSE, end[1], end[2], "none") :
      listOnly \in BOOLEAN, end \in InstallEnds }

\* the working tree with its modules, before the environment is created
InstallTree ==
    FS(InitDirs \cup {Join(TreeA, m) : m \in LocalModules},
       [p \in {ManifestOf(m) : m \in LocalModules} |-> TextFile("1")])

InitInstall ==
    /\ \E out \in {RunCreate(InstallTree,
                             CHOOSE in \in LifeCreateInputs : in.now = 1)} :
           /\ dirs = out.fs.dirs
           /\ files = out.fs.files
    /\ last = Outcome("none", "", "", "", "", ZeroState, FALSE, <<>>)

\* the developer changes a module
EditModule(m, text) ==
    /\ files[ManifestOf(m)] # TextFile(text)
    /\ files' = [files EXCEPT ![ManifestOf(m)] = TextFile(text)]
    /\ last' = Outcome("edit", TreeA, "", "", "", ZeroState, FALSE, <<>>)
    /\ UNCHANGED dirs

NextInstall ==
    \/ \E in \in InstallInputs : Install(in)
    \/ \E m \in LocalModules, text \in ModuleTexts : EditModule(m, text)

SpecInstall == InitInstall /\ [][NextInstall]_vars
----------------------------------------------------------------------------
(* Concurrent invocations: two creates, a run and a reconfigure, each its *)
(* own process, in the working tree TreeA.  A command reads the store     *)
(* once, at its start; between that read and the rest of the command the  *)
(* other processes may take their steps                                   *)

Creators == {"a", "b"}

\* the create of each of the two processes: the same identity, another instant
CreatorInput(p) ==
    [(CHOOSE in \in LifeCreateInputs : in.now = 1) EXCEPT
        !.now = IF p = "a" THEN 1 ELSE 2]

\* run --build --init --no-prompt, with the ports free or one of them held
ConcurrentRuns ==
    { LifeRun(TRUE, TRUE, TRUE, Answer(FALSE, FALSE), Answer(FALSE, FALSE), busy,
              TRUE, TRUE, 1) :
      busy \in {{}, {CalculatePorts("18.0").Mailhog}} }

\* a process: where it is (a run or a reconfigure that is done may start
\* again), how its command ended, the state it holds in memory
Proc(pc, err, state) == [pc |-> pc, err |-> err, state |-> state]

Idle == Proc("idle", "", ZeroState)

InitConcurrent ==
    /\ dirs = InitDirs
    /\ files = [p \in {} |-> NoDoc]
    /\ last = [cmd |-> "none", a |-> Idle, b |-> Idle, run |-> Idle,
               reconfigure |-> Idle]

\* a step of process p that leaves the file system as fs
Step(p, cmd, fs, proc) ==
    /\ dirs' = fs.dirs
    /\ files' = fs.files
    /\ last' = [last EXCEPT !.cmd = cmd, ![p] = proc]

\* runCreate up to its check for an existing environment
CreateCheck(p) ==
    /\ last[p].pc = "idle"
    /\ \E ctx \in {CreateContext(CreatorInput(p))} :
           IF EnvironmentExists(FS(dirs, files), ctx.Name, ctx.Branch)
           THEN Step(p, "create", FS(dirs, files), Proc("refused", "exists", ZeroState))
           ELSE Step(p, "create", FS(dirs, files),
                     Proc("checked", "", CreateState(CreatorInput(p), ctx)))

\* runCreate from templates.Render on
CreateWrite(p) ==
    /\ last[p].pc = "checked"
    /\ \E out \in {CreateFiles(FS(dirs, files), "none", last[p].state)} :
           Step(p, "create", out.fs, Proc("done", out.err, out.state))

\* what a command holds once loadState has answered, while the file system
\* is fs
Holding(fs, proc) == [fs |-> fs, state |-> proc.state, err |-> "", scanned |-> FALSE]

\* loadState at the start of run or reconfigure
LoadStep(p) ==
    /\ last[p].pc \in {"idle", "done"}
    /\ \E got \in {LoadState(FS(dirs, files), TreeA, "none")} :
           IF got.err # ""
           THEN Step(p, p, got.fs, Proc("done", "notfound", ZeroState))
           ELSE Step(p, p, got.fs, Proc("loaded", "", got.state))

\* runRun from the check of the ports on
RunRest(in) ==
    /\ last.run.pc = "loaded"
    /\ \E out \in {RunLoaded(in, Holding(FS(dirs, files), last.run))} :
           Step("run", "run", out.fs, Proc("done", out.err, out.state))

\* runReconfigure from the update of the lists on
ReconfigureRest(in) ==
    /\ last.reconfigure.pc = "loaded"
    /\ \E out \in {ReconfigureLoaded(in, Holding(FS(dirs, files), last.reconfigure))} :
           Step("reconfigure", "reconfigure", out.fs, Proc("done", out.err, out.state))

NextConcurrent ==
    \/ \E p \in Creators : CreateCheck(p)
    \/ \E p \in Creators : CreateWrite(p)
    \/ \E p \in {"run", "reconfigure"} : LoadStep(p)
    \/ \E in \in ConcurrentRuns : RunRest(in)
    \/ \E in \in ReconfigureInputs : ReconfigureRest(in)

SpecConcurrent == InitConcurrent /\ [][NextConcurrent]_vars
----------------------------------------------------------------------------
(* The store as the properties read it *)

Disk == FS(dirs, files)

\* the state files that parse: the persisted records
Records == {p \in StatePaths(Disk) : files[p].kind = "json"}

RecordAt(p) == UnmarshalState(files[p].doc)

IdentityOf(p) == <<RecordAt(p).ProjectName, RecordAt(p).Branch>>

\* where the state file of an identity is kept
StatePathOf(project, branch) == Join(EnvironmentDir(project, branch), StateFileName)

MarkerOf(dir) == Join(dir, MarkerFileName)

HasMarker(dir) == MarkerOf(dir) \in DOMAIN files

\* the state file the marker of dir leads to
MarkerTarget(dir) ==
    Resolve(dir, Join(TrimSpace(files[MarkerOf(dir)].text), StateFileName))

----------------------------------------------------------------------------
(* C1 *)

\* C1 as stated: after any sequence of create, run, reconfigure and reset, at
\* most one persisted state record has a given project_root
C1_OneRecordPerRoot ==
    \A p \in Records, q \in Records :
        RecordAt(p).ProjectRoot = RecordAt(q).ProjectRoot => p = q

\* C1 as amended: after any sequence of create, run, reconfigure and reset, at
\* most one persisted state record has a given (project_name, environment
\* name) identity: a create that succeeds adds the record of an identity that
\* had none and leaves every other record as it was.  Records created from one
\* working tree on different branches or under different names share their
\* project_root
C1_OneRecordPerIdentity ==
    [][/\ \A p \in Records', q \in Records' : IdentityOf(p)' = IdentityOf(q)' => p = q
       /\ (last'.cmd = "create" /\ last'.err = "") =>
              /\ StatePathOf(last'.project, last'.branch) \notin DOMAIN files
              /\ Records' = Records \cup {StatePathOf(last'.project, last'.branch)}
              /\ \A p \in Records : files'[p] = files[p]]_vars

\* a create has just added a second record for a working tree that had one
C1_Witness ==
    /\ last.cmd = "create" /\ last.err = ""
    /\ \E p \in Records, q \in Records :
           p # q /\ RecordAt(p).ProjectRoot = RecordAt(q).ProjectRoot

----------------------------------------------------------------------------
(* C2 *)

\* C2: docker create for an identity whose state record exists fails with the
\* conflict error that names the identity, and leaves every file and directory
\* as it was
C2_CreateConflict ==
    [][(/\ last'.cmd = "create"
        /\ StatePathOf(last'.project, last'.branch) \in DOMAIN files) =>
           /\ last'.err = "exists"
           /\ HasPrefix(last'.msg, "environment '" \o last'.project \o "/"
                                       \o last'.branch \o "' already exists")
           /\ dirs' = dirs
           /\ files' = files]_vars

\* a create has just been refused for an identity whose record is there
C2_Witness ==
    /\ last.cmd = "create" /\ last.err = "exists"
    /\ StatePathOf(last.project, last.branch) \in Records

----------------------------------------------------------------------------
(* C3 *)

ReturnsOwn(dir, got) == got.err = "" => got.state.ProjectRoot = dir

\* C3: whatever the marker of dir is (missing, unreadable, or leading to a
\* deleted, an unparseable or a foreign state), LoadFromDir(dir) never returns
\* a state whose project_root differs from dir
C3_NeverForeign ==
    /\ (last.cmd = "lookup" /\ last.err = "") => last.state.ProjectRoot = last.cwd
    /\ \A dir \in Cwds, fault \in {"none", "markerRead"} :
           ReturnsOwn(dir, LoadFromDir(Disk, dir, fault))

\* a lookup has just run in a directory whose marker leads to the state of
\* another working tree
C3_Witness ==
    /\ last.cmd = "lookup"
    /\ HasMarker(last.cwd)
    /\ MarkerTarget(last.cwd) \in Records
    /\ RecordAt(MarkerTarget(last.cwd)).ProjectRoot # last.cwd

----------------------------------------------------------------------------
(* C4 *)

\* both lookups find nothing, or both find the same state
SameOutcome(a, b) == (a.err = "") = (b.err = "") /\ (a.err = "" => a.state = b.state)

\* C4: in every reachable store and for every directory dir, LoadFromDir(dir)
\* with the marker fast path returns what the scan-only lookup returns: the
\* same environment's state, or no environment
C4_MarkerIsAccelerator ==
    \A dir \in Cwds :
        SameOutcome(LoadFromDir(Disk, dir, "none"), LoadFromDirScanOnly(Disk, dir))

----------------------------------------------------------------------------
(* C5 *)

\* the state file the content of the marker of dir names
MarkerNames(dir) == Join(files[MarkerOf(dir)].text, StateFileName)

\* the marker of dir names a state that is gone, or the state of another tree
StaleMarker(dir) ==
    /\ HasMarker(dir)
    /\ \/ MarkerNames(dir) \notin Records
       \/ RecordAt(MarkerNames(dir)).ProjectRoot # dir

\* the lookup got went through the scan, returned a record of dir and left a
\* marker that takes the next lookup down the fast path
Recovered(dir, got) ==
    /\ got.err = "" /\ got.scanned /\ got.state.ProjectRoot = dir
    /\ got.fs.files[MarkerOf(dir)].text
           = EnvironmentDir(got.state.ProjectName, got.state.Branch)
    /\ FastPath(got.fs, dir, "none").err = ""

\* C5: when the marker of dir is stale but some persisted record has
\* project_root = dir, LoadFromDir(dir) returns such a record through the scan
\* and rewrites the marker so that the next lookup takes the fast path; when
\* the rewrite fails the lookup still succeeds
C5_StaleMarkerRecovery ==
    \A dir \in Cwds :
        (StaleMarker(dir) /\ \E p \in Records : RecordAt(p).ProjectRoot = dir) =>
            /\ Recovered(dir, LoadFromDir(Disk, dir, "none"))
            /\ LoadFromDir(Disk, dir, "marker").err = ""

----------------------------------------------------------------------------
(* C6 *)

\* the lookup got took the fast path to the state s
FastHit(got, s) ==
    got.err = "" /\ ~got.scanned /\ got.state = UnmarshalState(MarshalState(s))

\* C6: after a create or a reconfigure whose Save succeeded, the marker
\* project_root/.odooctl holds EnvironmentDir(project_name, branch), and
\* LoadFromDir(project_root) returns the state just saved without the scan
C6_MarkerFastPath ==
    (last.cmd \in {"create", "reconfigure"} /\ last.err = "") =>
        /\ HasMarker(last.state.ProjectRoot)
        /\ files[MarkerOf(last.state.ProjectRoot)].text
               = EnvironmentDir(last.state.ProjectName, last.state.Branch)
        /\ FastHit(LoadFromDir(Disk, last.state.ProjectRoot, "none"), last.state)

----------------------------------------------------------------------------
(* C7 *)

\* C7 as stated: Load after Save returns a record equal to the state saved in
\* all fields
C7_RoundTripEqual ==
    last.cmd = "load" => (last.err = "" /\ last.loaded = last.state)

\* time.Time.Equal: the same instant, whatever the monotonic clock reading
SameInstant(a, b) == a.sec = b.sec

SameInstantPtr(a, b) == a.nil = b.nil /\ (~a.nil => SameInstant(a.t, b.t))

WithoutTimes(s) ==
    [s EXCEPT !.CreatedAt = ZeroTime, !.InitializedAt = NilTime, !.BuiltAt = NilTime]

\* C7 as amended: Load after Save returns a record equal to the state saved in
\* all fields, nil and empty lists and absent timestamps included, where a
\* timestamp is equal when it is the same instant: the monotonic clock reading
\* of a time.Now() value is not saved
C7_RoundTripSameInstants ==
    last.cmd = "load" =>
        /\ last.err = ""
        /\ WithoutTimes(last.loaded) = WithoutTimes(last.state)
        /\ SameInstant(last.loaded.CreatedAt, last.state.CreatedAt)
        /\ SameInstantPtr(last.loaded.InitializedAt, last.state.InitializedAt)
        /\ SameInstantPtr(last.loaded.BuiltAt, last.state.BuiltAt)

\* a record with a nil list, an empty list, an absent and a present
\* timestamp has been saved and loaded
C7_Witness ==
    /\ last.cmd = "load" /\ last.err = ""
    /\ last.state.Modules = NilSlice
    /\ last.state.PipPackages = Slice(<<>>)
    /\ last.state.BuiltAt = NilTime
    /\ ~last.state.InitializedAt.nil

----------------------------------------------------------------------------
(* C8 *)

\* the ports the scenario names for version 18.0
ScenarioPorts == [Odoo |-> 9800, Mailhog |-> 9825, SMTP |-> 1825, Debug |-> 5878]

\* C8: once an environment has been created for project "demo", version
\* "18.0", environment "main", the state file under ROOT/demo/main (under the
\* name the store gives state files) holds the ports 9800, 9825, 1825, 5878;
\* LoadFromDir from the working directory of the create returns the same
\* identity; and once the subtree is removed, LoadFromDir from that directory
\* fails with NotFound
C8_EndToEnd ==
    (/\ last.cmd = "create" /\ last.err = ""
     /\ last.project = "demo" /\ last.branch = "main"
     /\ last.state.OdooVersion = "18.0") =>
        /\ StatePathOf("demo", "main") \in Records
        /\ RecordAt(StatePathOf("demo", "main")).Ports = ScenarioPorts
        /\ \E got \in {LoadFromDir(Disk, last.cwd, "none")} :
               /\ got.err = ""
               /\ got.state.ProjectName = "demo" /\ got.state.Branch = "main"
        /\ LoadFromDir(RemoveAll(Disk, EnvironmentDir("demo", "main")),
                       last.cwd, "none").err = "notexist"

----------------------------------------------------------------------------
(* C9 *)

\* C9: after reset -c has removed the files of an environment,
\* EnvironmentExists of its identity is false, Load of its identity fails with
\* NotFound, and its state file is gone
C9_ResetRemoves ==
    (last.cmd = "reset -c" /\ last.err = "") =>
        /\ ~EnvironmentExists(Disk, last.project, last.branch)
        /\ Load(Disk, last.project, last.branch).err = "notexist"
        /\ StatePathOf(last.project, last.branch) \notin DOMAIN files

\* reset -c has just removed one environment and another is still there
C9_Witness ==
    /\ last.cmd = "reset -c" /\ last.err = ""
    /\ last.project = "demo" /\ last.branch = "main"
    /\ Records # {}

----------------------------------------------------------------------------
(* C10 *)

Resets == {"reset", "reset -c"}

\* no record names dir as its project_root
NoRecordOf(dir) == \A p \in Records : RecordAt(p).ProjectRoot # dir

\* C10 as stated: a reset that follows a reset -c from the same directory, or
\* that is run where LoadFromDir finds no environment, is not an error and
\* leaves every file and directory as it was
C10_ResetIdempotent ==
    [][(/\ last'.cmd \in Resets
        /\ \/ (last.cmd = "reset -c" /\ last.err = "" /\ last.cwd = last'.cwd)
           \/ LoadFromDir(Disk, last'.cwd, "none").err # "") =>
           /\ last'.err = ""
           /\ dirs' = dirs
           /\ files' = files]_vars

\* C10 as amended: a reset run where LoadFromDir finds no environment for the
\* working directory fails with "no Docker environment found. Run 'odooctl
\* docker create' first" and leaves every file and directory as it was; a
\* reset that follows a reset -c from the same directory is such a run when no
\* remaining record has that directory as its project_root
C10_ResetWithoutEnvironment ==
    [][/\ (last'.cmd \in Resets /\ LoadFromDir(Disk, last'.cwd, "none").err # "") =>
              /\ last'.err = "notfound"
              /\ last'.msg = "no Docker environment found. Run 'odooctl docker create' first"
              /\ dirs' = dirs
              /\ files' = files
       /\ (/\ last.cmd = "reset -c" /\ last.err = "" /\ NoRecordOf(last.cwd)
           /\ last'.cmd \in Resets /\ last'.cwd = last.cwd) =>
              last'.err = "notfound"]_vars

\* a reset -c has just failed in a working tree that still has the marker of
\* an environment created there and removed since
C10_Witness ==
    /\ last.cmd = "reset -c" /\ last.err = "notfound"
    /\ HasMarker(last.cwd)
    /\ NoRecordOf(last.cwd)

----------------------------------------------------------------------------
(* C11 *)

\* the commands that begin with loadState
LoadStateCmds == {"lookup", "run", "reconfigure", "reset", "reset -c"}

\* the errors of LoadFromDir that say nothing was found: os.ErrNotExist, and
\* the os.ReadDir of a ~/.odooctl that does not exist
NotFoundErrs == {"notexist", "readdir"}

\* C11: when no persisted state record has project_root equal to the working
\* directory, LoadFromDir returns NotFound there, and a command that resolves
\* its environment from the working directory refuses with the instruction to
\* run 'odooctl docker create' first and leaves every file and directory as
\* it was
C11_NotFoundRefuses ==
    [][(last'.cmd \in LoadStateCmds /\ NoRecordOf(last'.cwd)) =>
           /\ LoadFromDir(Disk, last'.cwd, "none").err \in NotFoundErrs
           /\ last'.err = "notfound"
           /\ last'.msg = "no Docker environment found. Run 'odooctl docker create' first"
           /\ dirs' = dirs
           /\ files' = files]_vars

\* a lookup has just been refused in a directory that no record names, while
\* the store holds the record of another directory
C11_Witness ==
    /\ last.cmd = "lookup" /\ last.err = "notfound"
    /\ NoRecordOf(last.cwd)
    /\ Records # {}

----------------------------------------------------------------------------
(* C12 *)

\* the marker of dir leads to a state file that is there and does not parse
CorruptOwned(dir) ==
    /\ HasMarker(dir)
    /\ MarkerTarget(dir) \in StatePaths(Disk)
    /\ files[MarkerTarget(dir)].kind # "json"

\* C12: a state file that exists and cannot be parsed is a hard error: reading
\* it reports the parse error, and a lookup from the working tree whose marker
\* leads to it does not report that no environment exists
C12_CorruptIsSurfaced ==
    [][(last'.cmd = "lookup" /\ CorruptOwned(last'.cwd)) =>
           /\ ReadState(Disk, MarkerTarget(last'.cwd)).err = "corrupt"
           /\ last'.err # "notfound"]_vars

----------------------------------------------------------------------------
(* C13 *)

\* the marker file at path m is created or changed by the step
MarkerTouched(m) ==
    \/ (m \in DOMAIN files') # (m \in DOMAIN files)
    \/ (m \in DOMAIN files /\ m \in DOMAIN files' /\ files'[m] # files[m])

\* C13: in Save the write of the state file completes before the marker is
\* written: a step of Save touches the marker only when the state file of the
\* state being saved already holds that state, and when the open or the write
\* of the state file fails, Save ends with the marker as it was
C13_StateBeforeMarker ==
    [][last'.cmd = "save" =>
           /\ MarkerTouched(MarkerOf(last.state.ProjectRoot)) =>
                  /\ last.pc \in {"markerOpen", "markerWrite"}
                  /\ StatePathOf(last.state.ProjectName, last.state.Branch)
                         \in DOMAIN files
                  /\ files[StatePathOf(last.state.ProjectName, last.state.Branch)]
                         = JsonFile(MarshalState(last.state))
           /\ last'.err = "state" =>
                  /\ last.pc \in {"open", "write"}
                  /\ last'.pc = "idle"
                  /\ ~MarkerTouched(MarkerOf(last.state.ProjectRoot))]_vars

\* a Save of a new environment has just written the marker, which now names
\* the directory of that environment
C13_Witness ==
    /\ last.cmd = "save" /\ last.pc = "idle" /\ last.err = ""
    /\ ~last.state.IsGitRepo
    /\ HasMarker(last.state.ProjectRoot)
    /\ files[MarkerOf(last.state.ProjectRoot)].text
           = EnvironmentDir(last.state.ProjectName, last.state.Branch)

----------------------------------------------------------------------------
(* C14 *)

\* C14: while one process runs Save, a Load of the environment demo/main or a
\* LoadFromDir from its working tree /w/demo, an environment that is there
\* all along, never fails: the reader sees no half-written state file, no
\* parse failure and no NotFound
C14_ReaderNeverFails ==
    last.cmd \in {"load", "loadFromDir"} => last.seen.err = ""

----------------------------------------------------------------------------
(* C15 *)

\* C15: every command changes the store only within the subtree of the one
\* environment it works on: the state record of every other identity is left
\* as it was, by reset -c in particular, whatever identity create has
\* persisted (an empty environment name from a detached HEAD included)
C15_SubtreeScoped ==
    [][\A p \in Records :
           IdentityOf(p) # <<last'.project, last'.branch>> =>
               (p \in DOMAIN files' /\ files'[p] = files[p])]_vars

----------------------------------------------------------------------------
(* C16 *)

NoSlash(name) == \A i \in 1..Len(name) : Ch(name, i) # "/"

\* C16: SanitizeName is idempotent, SanitizeName(SanitizeName(s)) =
\* SanitizeName(s) for every s, and its output never contains "/"
C16_SanitizeIdempotent ==
    last.cmd = "SanitizeName" =>
        /\ SanitizeName(last.out) = last.out
        /\ NoSlash(last.out)

\* a name with a separator and an unsafe byte has been sanitized
C16_Witness ==
    /\ last.cmd = "SanitizeName"
    /\ last.in = "a/ "
    /\ last.out = "a-"

----------------------------------------------------------------------------
(* C17 *)

\* C17: the output of SanitizeName contains no path separator and is safe as
\* a single path segment: EnvironmentDir(p, SanitizeName(x)) is a direct child
\* of ProjectDir(p) for every x
C17_SanitizeSingleSegment ==
    last.cmd = "SanitizeName" =>
        /\ NoSlash(last.out)
        /\ Dir(EnvironmentDir("demo", last.out)) = ProjectDir("demo")
        /\ EnvironmentDir("demo", last.out) # ProjectDir("demo")

----------------------------------------------------------------------------
(* C18 *)

\* C18: the project_name and the environment name of every state record that
\* create has persisted are fixed points of SanitizeName, whether they come
\* from the directory, from git or from --name
C18_PersistedNamesSanitized ==
    \A p \in Records :
        /\ SanitizeName(RecordAt(p).ProjectName) = RecordAt(p).ProjectName
        /\ SanitizeName(RecordAt(p).Branch) = RecordAt(p).Branch

----------------------------------------------------------------------------
(* C19 *)

\* C19: CalculatePorts is a function of the leading integer of the version,
\* read as fmt.Sscanf reads it and 17 when there is none: primary = 8000 +
\* 100*major, auxiliary = primary + 25, SMTP = 1000 + 100*major + 25, debug =
\* 5000 + 100*major + 78; "17.0" gives 9700/9725/1725/5778 and "18.0" gives
\* 9800/9825/1825/5878
C19_CalculatePorts ==
    last.cmd = "CalculatePorts" =>
        /\ last.out.Odoo = 8000 + (100 * MajorOf(ScanMajor(last.in)))
        /\ last.out.Mailhog = last.out.Odoo + 25
        /\ last.out.SMTP = 1000 + (100 * MajorOf(ScanMajor(last.in))) + 25
        /\ last.out.Debug = 5000 + (100 * MajorOf(ScanMajor(last.in))) + 78
        /\ last.in = "17.0" =>
               last.out = [Odoo |-> 9700, Mailhog |-> 9725, SMTP |-> 1725, Debug |-> 5778]
        /\ last.in = "18.0" =>
               last.out = [Odoo |-> 9800, Mailhog |-> 9825, SMTP |-> 1825, Debug |-> 5878]

----------------------------------------------------------------------------
(* C20 *)

\* the four ports of base moved up by 10*k
Shifted(base, k) ==
    [Odoo |-> base.Odoo + (10 * k), Mailhog |-> base.Mailhog + (10 * k),
     SMTP |-> base.SMTP + (10 * k), Debug |-> base.Debug + (10 * k)]

\* none of the four ports is held by another listener
AllFree(ports, busy) ==
    {ports.Odoo, ports.Mailhog, ports.SMTP, ports.Debug} \cap busy = {}

\* the k of 0..9 at which all four shifted ports are free
FreeShifts(base, busy) == {k \in 0..9 : AllFree(Shifted(base, k), busy)}

\* C20: FindAvailablePorts(version) is CalculatePorts(version) with all four
\* ports shifted by 10*k for the smallest k of 0..9 at which the four shifted
\* ports are free, and the unshifted CalculatePorts(version) when there is no
\* such k
C20_FindAvailablePorts ==
    last.cmd = "FindAvailablePorts" =>
        IF FreeShifts(CalculatePorts(last.in.version), last.in.busy) = {}
        THEN last.out = CalculatePorts(last.in.version)
        ELSE \E k \in FreeShifts(CalculatePorts(last.in.version), last.in.busy) :
                 /\ \A j \in FreeShifts(CalculatePorts(last.in.version), last.in.busy) :
                        k <= j
                 /\ last.out = Shifted(CalculatePorts(last.in.version), k)

\* the first three attempts were blocked through the SMTP port and a later
\* attempt was free as well: the ports returned are the fourth attempt's
C20_Witness ==
    /\ last.cmd = "FindAvailablePorts"
    /\ last.in.version = "18.0"
    /\ CalculatePorts("18.0").SMTP + 20 \in last.in.busy
    /\ CalculatePorts("18.0").Odoo \notin last.in.busy
    /\ last.out = Shifted(CalculatePorts("18.0"), 3)

----------------------------------------------------------------------------
(* C21 *)

\* C21: in every persisted record, Ports is CalculatePorts(odoo_version) with
\* all four ports shifted by one common offset, a multiple of ten below a
\* hundred; and whenever a command changes the ports of a record, it changes
\* all four of them, by the same amount
C21_PortsAsOneUnit ==
    [][/\ \A p \in Records' :
              \E k \in 0..(PortAttempts - 1) :
                  RecordAt(p)'.Ports =
                      Shifted(CalculatePorts(RecordAt(p)'.OdooVersion), k)
       /\ \A p \in Records \cap Records' :
              \/ RecordAt(p)'.Ports = RecordAt(p).Ports
              \/ /\ RecordAt(p)'.Ports.Odoo # RecordAt(p).Ports.Odoo
                 /\ RecordAt(p)'.Ports.Mailhog - RecordAt(p).Ports.Mailhog =
                        RecordAt(p)'.Ports.Odoo - RecordAt(p).Ports.Odoo
                 /\ RecordAt(p)'.Ports.SMTP - RecordAt(p).Ports.SMTP =
                        RecordAt(p)'.Ports.Odoo - RecordAt(p).Ports.Odoo
                 /\ RecordAt(p)'.Ports.Debug - RecordAt(p).Ports.Debug =
                        RecordAt(p)'.Ports.Odoo - RecordAt(p).Ports.Odoo]_vars

\* run has found the Mailhog port of the first attempt and the Odoo port of
\* the calculated ports held, and has persisted the ports shifted by twenty
C21_Witness ==
    /\ last.cmd = "run" /\ last.err = ""
    /\ \E p \in Records :
           /\ RecordAt(p).Ports = Shifted(CalculatePorts("18.0"), 2)
           /\ last.state.Ports = RecordAt(p).Ports
----------------------------------------------------------------------------
(* C22 *)

\* compose up ran with --build, and succeeded
BuildSucceeded(o) ==
    /\ Len(o.compose) >= 1
    /\ HasSuffix(o.compose[1], " --build")
    /\ o.err # "up"

\* the initialization ran, and succeeded
InitSucceeded(o) ==
    /\ Len(o.compose) >= 2
    /\ o.compose[2] = OdooInit
    /\ o.err # "init"

\* C22: the built_at of a record goes from unset to set only in a run whose
\* compose up with --build has succeeded, and its initialized_at only in a run
\* whose odoo-init invocation has succeeded; a run or a reconfigure, the
\* regeneration on a port conflict included, leaves a timestamp that is set
\* as it is
C22_FirstSuccessOnly ==
    [][\A p \in Records \cap Records' :
           /\ (RecordAt(p).BuiltAt.nil /\ ~RecordAt(p)'.BuiltAt.nil) =>
                  (last'.cmd = "run" /\ BuildSucceeded(last'))
           /\ (RecordAt(p).InitializedAt.nil /\ ~RecordAt(p)'.InitializedAt.nil) =>
                  (last'.cmd = "run" /\ InitSucceeded(last'))
           /\ (last'.cmd \in {"run", "reconfigure"} /\ ~RecordAt(p).BuiltAt.nil) =>
                  RecordAt(p)'.BuiltAt = RecordAt(p).BuiltAt
           /\ (last'.cmd \in {"run", "reconfigure"} /\ ~RecordAt(p).InitializedAt.nil) =>
                  RecordAt(p)'.InitializedAt = RecordAt(p).InitializedAt]_vars

\* a run that neither builds nor initializes has started the containers of
\* an environment that was built and initialized by an earlier run
C22_Witness ==
    /\ last.cmd = "run" /\ last.err = ""
    /\ last.compose = <<"up -d">>
    /\ \E p \in Records :
           /\ ~RecordAt(p).BuiltAt.nil
           /\ ~RecordAt(p).InitializedAt.nil

----------------------------------------------------------------------------
(* C23 *)

\* the compose invocation that starts the main containers
IsUp(args) == HasPrefix(args, "up")

\* C23: in a run that initializes the database, the odoo-init invocation of
\* docker compose comes before the compose up that starts the main containers
C23_InitBeforeUp ==
    (last.cmd = "run" /\ \E i \in 1..Len(last.compose) : last.compose[i] = OdooInit) =>
        \E i, j \in 1..Len(last.compose) :
            /\ last.compose[i] = OdooInit
            /\ IsUp(last.compose[j])
            /\ i < j
            /\ \A k \in 1..Len(last.compose) : IsUp(last.compose[k]) => i < k
----------------------------------------------------------------------------
(* C24 *)

\* the first entry of the ordered list of supported versions that is a
\* prefix of the branch, "" when there is none
BranchCandidate(branch) ==
    IF \E i \in 1..Len(OdooVersions) : HasPrefix(branch, OdooVersions[i])
    THEN OdooVersions[CHOOSE i \in 1..Len(OdooVersions) :
                          /\ HasPrefix(branch, OdooVersions[i])
                          /\ \A j \in 1..(i - 1) : ~HasPrefix(branch, OdooVersions[j])]
    ELSE ""

\* the root of the project: the top level of the repository, or the
\* directory itself outside one
RootOf(in) == IF in.git.IsRepo THEN in.git.Root ELSE in.cwd

\* the content of the .odooversion file at the root, "" when there is none
FileCandidate(in) ==
    IF in.read[RootOf(in) \o "/.odooversion"].present
    THEN in.read[RootOf(in) \o "/.odooversion"].data
    ELSE ""

\* C24: the version Detect answers is the first supported version, in the
\* order of the list, that is a prefix of the git branch; when there is none
\* (or no repository), the content of the .odooversion file at the root; when
\* that yields nothing, the environment variable ODOO_VERSION; otherwise
\* empty.  The answer is a function of these sources alone: no prompt is
\* among its inputs
C24_VersionPriority ==
    last.cmd = "Detect" =>
        last.out.OdooVersion =
            IF last.in.git.IsRepo /\ BranchCandidate(last.in.git.Branch) # ""
            THEN BranchCandidate(last.in.git.Branch)
            ELSE IF FileCandidate(last.in) # "" THEN FileCandidate(last.in)
            ELSE last.in.envVersion

\* in a subdirectory of a repository whose branch names no version, with an
\* .odooversion file at the top level, a different one in the subdirectory
\* and ODOO_VERSION set, Detect has answered the file at the top level
C24_Witness ==
    /\ last.cmd = "Detect"
    /\ last.in.cwd = SubA
    /\ last.in.git = GitRepo(TreeA, "v17.0")
    /\ last.in.read[Join(TreeA, ".odooversion")] = FileWith("17.0")
    /\ last.in.read[Join(SubA, ".odooversion")] = FileWith("")
    /\ last.in.envVersion = "18.0"
    /\ last.out.OdooVersion = "17.0"
----------------------------------------------------------------------------
(* C25 *)

\* the invocations install --list-only [modules...], with --ignore and
\* --ignore-core or without
ListOnlyInputs ==
    {in \in InstallInputs : in.listOnly /\ ~in.updateAll /\ ~in.computeHashes}

\* C25: in every state, install --list-only executes no docker compose
\* command and leaves module-hashes.json (and every other file) as it is,
\* whichever module arguments it is given
C25_ListOnlyDryRun ==
    \A in \in ListOnlyInputs :
        \A out \in {RunInstall(Disk, in)} :
            /\ out.compose = <<>>
            /\ out.fs = Disk

----------------------------------------------------------------------------
(* C27 *)

\* the stored hash of every local module, "" for a module that has none
StoredHashes(fs, s) ==
    [m \in LocalModules |->
        IF m \in DOMAIN LoadHashes(fs, s).hashes THEN LoadHashes(fs, s).hashes[m]
        ELSE ""]

\* the same install once more, with docker doing its work
Retried(in) == [in EXCEPT !.updateOk = TRUE, !.upOk = TRUE]

\* C27: in every state, an install that stops the odoo container goes on to
\* restart it with compose up -d odoo, after the update and whether or not
\* the update succeeded; it changes the stored module hashes only if the
\* update succeeded; and after an update that failed, the same install run
\* again finds the same modules new or changed: it asks docker compose for
\* the very same install and update
C27_RestartAndHashes ==
    \A in \in {i \in InstallInputs : ~i.listOnly /\ ~i.computeHashes /\ ~i.ignoreCore} :
        \A out \in {RunInstall(Disk, in)} :
            Contains(out.compose, "stop odoo") =>
                /\ Len(out.compose) = 3
                /\ out.compose[1] = "stop odoo"
                /\ HasPrefix(out.compose[2], "run --rm odoo ")
                /\ out.compose[3] = "up -d odoo"
                /\ StoredHashes(out.fs, out.state) # StoredHashes(Disk, out.state) =>
                       (in.updateOk /\ out.err = "")
                /\ ~in.updateOk =>
                       /\ out.err = "install"
                       /\ out.fs = Disk
                       /\ RunInstall(out.fs, Retried(in)).compose = out.compose

\* the install of the two local modules, new to the environment, has failed,
\* the container was restarted, and no hash is stored
C27_Witness ==
    /\ last.cmd = "install" /\ last.err = "install"
    /\ last.compose = <<"stop odoo", OdooUpdateArgs(last.state, <<"la", "lb">>, <<>>),
                        "up -d odoo">>
    /\ StoredHashes(Disk, last.state) = [m \in LocalModules |-> ""]
----------------------------------------------------------------------------
(* C26 *)

\* the confirmation of reset was asked for and not given
Declined(in) == (in.volumes \/ in.files) /\ ~in.yes /\ (in.confirm.err \/ ~in.confirm.yes)

\* what reset leaves of the files and directories there were
Kept(fs) ==
    /\ dirs \subseteq fs.dirs
    /\ \A p \in DOMAIN files : p \in DOMAIN fs.files /\ fs.files[p] = files[p]

\* C26: in every state, a reset without -c removes no file and no directory
\* and leaves the state file and the generated files of the environment as
\* they are; a reset whose confirmation for -v or -c is declined runs no
\* docker compose command (no container is stopped, no volume removed),
\* removes no file either, and is not an error
C26_ResetKeeps ==
    \A in \in LifeResetInputs :
        /\ (~in.files \/ Declined(in)) => Kept(RunReset(Disk, in).fs)
        /\ (Declined(in) /\ RunReset(Disk, in).err # "notfound") =>
               /\ RunReset(Disk, in).compose = <<>>
               /\ RunReset(Disk, in).err = "aborted"

\* a reset -v -c whose confirmation was declined has left the environment,
\* built by an earlier run, in place
C26_Witness ==
    /\ last.cmd = "reset -c" /\ last.err = "aborted"
    /\ \E p \in Records : ~RecordAt(p).BuiltAt.nil
    /\ Join(EnvironmentDir("demo", "main"), "docker-compose.yml") \in DOMAIN files
----------------------------------------------------------------------------
(* C28 *)

\* the creates during which the marker file cannot be written
MarkerFaults == {in \in CreateInputsFaults : in.fault \in {"marker", "markerCut"}}

\* the same create once more, with nothing in its way
Repeated(in) == [in EXCEPT !.fault = "none"]

\* C28: in every state, a create that gets as far as State.Save while the
\* marker file cannot be written reports "failed to save state", yet leaves
\* the state file of its identity persisted, holding the record it built:
\* EnvironmentExists of the identity is true, and the same create, repeated,
\* is refused as a conflict
C28_SaveNotAllOrNothing ==
    \A in \in MarkerFaults :
        \A out \in {RunCreate(Disk, in)} :
            out.err \notin {"exists", "prompt"} =>
                /\ out.err = "save"
                /\ EnvironmentExists(out.fs, out.state.ProjectName, out.state.Branch)
                /\ \A got \in {Load(out.fs, out.state.ProjectName, out.state.Branch)} :
                       /\ got.err = ""
                       /\ SameInstant(got.state.CreatedAt, out.state.CreatedAt)
                       /\ got.state.ProjectRoot = out.state.ProjectRoot
                /\ RunCreate(out.fs, Repeated(in)).err = "exists"

\* a create has reported "failed to save state" in a working tree that has no
\* marker, and the record of its identity is there
C28_Witness ==
    /\ last.cmd = "create" /\ last.err = "save"
    /\ ~HasMarker(last.cwd)
    /\ EnvironmentExists(Disk, last.project, last.branch)
    /\ StatePathOf(last.project, last.branch) \in Records
----------------------------------------------------------------------------
(* C29 *)

\* the state file of the one environment of the concurrent runs
TheStatePath == StatePathOf("demo", "main")

\* the step has written the state file
Saved == TheStatePath \in DOMAIN files' /\
         (TheStatePath \notin DOMAIN files \/ files'[TheStatePath] # files[TheStatePath])

\* C29: whenever a run that goes on after its load writes the state file,
\* the pip packages and addons paths of the record it writes are those it
\* loaded, whatever the record on disk held by then; and whenever a
\* reconfigure does, the ports, built_at and initialized_at it writes are
\* those it loaded.  Nothing is read again, merged or locked
C29_SavesWhatItLoaded ==
    [][/\ (last'.cmd = "run" /\ last.run.pc = "loaded" /\ Saved) =>
              /\ RecordAt(TheStatePath)'.PipPackages.elems =
                     last.run.state.PipPackages.elems
              /\ RecordAt(TheStatePath)'.AddonsPaths.elems =
                     last.run.state.AddonsPaths.elems
       /\ (last'.cmd = "reconfigure" /\ last.reconfigure.pc = "loaded" /\ Saved) =>
              /\ RecordAt(TheStatePath)'.Ports = last.reconfigure.state.Ports
              /\ SameInstantPtr(RecordAt(TheStatePath)'.BuiltAt,
                                last.reconfigure.state.BuiltAt)
              /\ SameInstantPtr(RecordAt(TheStatePath)'.InitializedAt,
                                last.reconfigure.state.InitializedAt)]_vars

\* the lost update: one create made the environment, a reconfigure has
\* saved the pip package "requests" and ended without error, and a run that
\* had loaded the state before has then saved it: the record holds no pip
\* package
C29_Witness ==
    /\ last.cmd = "run"
    /\ last.a.pc = "done" /\ last.b.pc = "idle"
    /\ last.run.pc = "done" /\ last.run.err = ""
    /\ last.reconfigure.pc = "done" /\ last.reconfigure.err = ""
    /\ last.reconfigure.state.PipPackages.elems = <<"requests">>
    /\ TheStatePath \in Records
    /\ RecordAt(TheStatePath).PipPackages.elems = <<>>
    /\ ~RecordAt(TheStatePath).BuiltAt.nil

----------------------------------------------------------------------------
(* C30 *)

\* C30: a create whose check for an existing environment runs after
\* another create of the same identity has ended successfully is refused
\* with the conflict and writes nothing; nothing else stands between two
\* creates: a create that has passed the check saves without looking again,
\* reports no error, and the record is then the one it built
C30_CheckThenAct ==
    [][\A p \in Creators :
           /\ (/\ last[p].pc = "idle" /\ last'[p].pc # "idle"
               /\ \E q \in Creators \ {p} : last[q].pc = "done" /\ last[q].err = "") =>
                  /\ last'[p].pc = "refused"
                  /\ last'[p].err = "exists"
                  /\ files' = files
           /\ (last[p].pc = "checked" /\ last'[p].pc = "done") =>
                  /\ last'[p].err = ""
                  /\ TheStatePath \in Records'
                  /\ SameInstant(RecordAt(TheStatePath)'.CreatedAt,
                                 last[p].state.CreatedAt)]_vars

\* both creates have passed the check and both have saved without error;
\* the record is the one of the first process, which saved last: the record
\* the second process had saved is gone
C30_Witness ==
    /\ last.cmd = "create"
    /\ last.a.pc = "done" /\ last.a.err = ""
    /\ last.b.pc = "done" /\ last.b.err = ""
    /\ last.run = Idle /\ last.reconfigure = Idle
    /\ TheStatePath \in Records
    /\ RecordAt(TheStatePath).CreatedAt.sec = 1
====
